---- MODULE Spec2Model ----
(***************************************************************************)
(* Model of kreklow.us/go/cli: the ExitHandler of exit.go (graceful        *)
(* shutdown coordinator built on sync.WaitGroup, sync.Once, a close-only   *)
(* channel and os/signal).                                                 *)
(*                                                                         *)
(* One ExitHandler value is modelled together with the goroutines it       *)
(* starts (the Watch listener and timeoutWait), one caller blocked in      *)
(* Wait, and the operating system delivering signals.  Every exported     *)
(* method is one action; a blocking call (Wait, the two selects) is split  *)
(* at the point where it blocks.                                           *)
(*                                                                         *)
(* The output functions of write.go are modelled with their two sinks, the *)
(* two locks and two calling goroutines; a call is split at its lock, at   *)
(* each write of the clear sequence and at its deferred unlock.  The lazy  *)
(* creation of the exit channel by concurrent first calls of Add is        *)
(* modelled statement by statement in a specification of its own.          *)
(*                                                                         *)
(* The Cmd of the first versions (NewCmd, Exit, AddWait, Done, Wait and    *)
(* watchExitSignal) has a specification of its own as well, starting in    *)
(* the state NewCmd returns in.                                            *)
(***************************************************************************)
EXTENDS Integers, Sequences, FiniteSets

\* ---------------------------------------------------------------- bounds
MaxCount == 2        \* largest pending count explored
MaxDelta == 2        \* Add(n) is explored for n in -MaxDelta..MaxDelta
MaxExitCalls == 2    \* Exit calls are counted up to this number

\* ------------------------------------------------------------ input sets
NilErr == "nil"
Errs == {NilErr, "e1"}          \* error values passed to Exit
Sigs == {"SIGHUP", "SIGUSR1"}         \* signals the OS may deliver
Timeouts == {-1, 1}                   \* durations passed to SetTimeout; the
                                      \* zero value 0 is the initial one
Deltas == (0 - MaxDelta)..MaxDelta
NilChan == 0                          \* the nil channel

TimeoutLine == "exit forced by timeout"
SignalLine == "exit forced by signal"
ETIME == 62                           \* syscall.ETIME on linux

Callers == {"g1", "g2"}               \* goroutines calling into the package
NoCaller == "none"
Newline == "\n"
Verb == "%d"                          \* the formatting verb in a format
Val == "7"                            \* the operand formatted by the verb
\* texts passed as operand or format, as sequences of tokens
Texts == {<<Verb, Newline>>, <<"a", Newline, Verb, Newline>>}
Dests == {"tty", "file"}              \* *os.File destinations: a terminal, a
                                      \* regular file or pipe
Terminals == {"tty", "tty2"}          \* the destinations that are terminals
OutDests == Dests \cup Terminals      \* writers given to SetOutputWriter
ClearCmd == <<"ESC[1A", "ESC[2K">>    \* cursor up, erase line
OutWrites == {"Print", "Printf", "Println"}
ErrWrites == {"Eprint", "Eprintf", "Eprintln"}

\* signals watchExitSignal registers for
CmdSigs == {"SIGHUP", "SIGINT", "SIGTERM"}
DefaultTimeout == 5                   \* seconds, set by NewCmd
CmdTimeouts == {1, DefaultTimeout}    \* durations passed to SetExitTimeout

VARIABLES
    timeout,      \* e.timeout
    count,        \* counter of e.wg
    wpc,          \* the Wait caller: "idle", "waiting" (blocked), "woken"
                  \* (released), "returned"
    waitRet,      \* value returned by Wait ("none" before it returns)
    C,            \* e.C  (channel id, NilChan when nil)
    ec,           \* e.ec (channel id, NilChan when nil)
    nchan,        \* number of channels made so far
    closedChans,  \* ids of the channels that have been closed
    scMade,       \* e.sc # nil
    scBuf,        \* contents of e.sc (capacity 1)
    watched,      \* signals os/signal currently relays to e.sc
    exitOnce,     \* e.exitOnce has run
    watchOnce,    \* e.watchOnce has run
    err,          \* e.err
    lpc,          \* listener goroutine: "none", "select", "exit", "done"
    lsig,         \* signal held by the listener between its receive and its
                  \* Exit call ("none" otherwise)
    tpc,          \* timeoutWait goroutine: "none", "start", "select",
                  \* "print", "done"
    tArg,         \* argument t of timeoutWait
    tSc,          \* e.sc was non-nil when timeoutWait entered its select
    proc,         \* the process: "running", "panicked", "forced", "returned"
    stderr,       \* lines written to os.Stderr by the handler
    exitCode,     \* status passed to os.Exit (-1 while none)
    \* history variables
    closes,       \* number of close(e.ec) that succeeded
    panics,       \* kinds of panic raised so far
    exitCalls,    \* number of Exit calls made so far, up to MaxExitCalls
    firstArg,     \* argument of the first Exit call ("none" before it)
    exitBy,       \* caller of the Exit call that ran the once body
    exitTimeout,  \* e.timeout at the first Exit call (0 before it)
    lastWatch     \* signal list of the most recent Watch call

VARIABLES
    lazy,         \* per caller: position in a first Add that found e.ec nil,
                  \* and the channel it made
    outWriter,    \* c.outWriter (a destination)
    errWriter,    \* c.errWriter
    outIsTerm,    \* c.outIsTerm
    errIsTerm,    \* c.errIsTerm
    outLiveLines, \* c.outLiveLines
    outLock,      \* holder of c.outLock (NoCaller when free)
    errLock,      \* holder of c.errLock
    closed,       \* destinations that have been closed
    call,         \* per caller: the output call in progress
    \* history variables
    lastOut,      \* last write to the output sink while it was a terminal:
                  \* "none", "live" (Lprintf), "plain" (Print, Printf,
                  \* Println) or "reset" (one of these after an Lprintf)
    prevK,        \* newlines in the content of the latest write call when
                  \* it was an Lprintf to a terminal, 0 otherwise
    rendered      \* the writers live content was ever rendered on

VARIABLES
    cmdWg,          \* counter of c.wg
    cmdExitChan,    \* c.exitChan: "open" or "closed"
    cmdExitOnce,    \* c.exitOnce has run
    cmdExitTimeout, \* c.exitTimeout
    cmdSigChan,     \* content of sigChan of watchExitSignal (capacity 1)
    cmdNotified,    \* signal.Notify(sigChan, ...) was called
    cmdWatch,       \* watchExitSignal: "start", "select", "exit", "second",
                    \* "osexit", "done"
    cmdTimer,       \* the goroutine of Exit: "none", "sleep", "osexit",
                    \* "done"
    cmdWait,        \* the caller of Wait: "idle", "waiting", "returned"
    cmdProc,        \* "running", "returned", "forced" (os.Exit), "killed"
                    \* (default action of a signal), "panicked"
    cmdStderr,      \* lines written with EPrintln
    cmdStatus,      \* exit status, -1 while there is none
    cmdDelivered    \* signals the operating system has delivered so far

\* The variables of the ExitHandler.
ehVars == <<timeout, count, wpc, waitRet, C, ec, nchan, closedChans, scMade,
            scBuf, watched, exitOnce, watchOnce, err, lpc, tpc, tArg, tSc,
            proc, stderr, exitCode, closes, panics, exitCalls, firstArg,
            exitBy, exitTimeout, lsig, lastWatch>>

\* The variables of the output functions.
wrVars == <<outWriter, errWriter, outIsTerm, errIsTerm, outLiveLines,
            outLock, errLock, closed, call, lastOut, prevK, rendered>>

\* The variables of the Cmd of the first versions.
cmdVars == <<cmdWg, cmdExitChan, cmdExitOnce, cmdExitTimeout, cmdSigChan,
             cmdNotified, cmdWatch, cmdTimer, cmdWait, cmdProc, cmdStderr,
             cmdStatus, cmdDelivered>>

vars == <<ehVars, lazy, wrVars, cmdVars>>

wgVars == <<count, wpc>>
chanVars == <<C, ec, nchan, closedChans>>
sigVars == <<scMade, scBuf, watched, lastWatch>>
exitVars == <<exitOnce, err, tpc, tArg, closes, exitCalls, firstArg, exitBy,
              exitTimeout>>
outVars == <<stderr, exitCode>>

Running == proc = "running"
CmdRunning == cmdProc = "running"

\* A caller with no output call in progress.
IdleCall ==
    [pc |-> "idle", op |-> "none", arg |-> <<>>, w |-> "none", l |-> 0,
     k0 |-> 0, wrote |-> <<>>, res |-> "none"]

\* A caller that is not inside a first Add.
IdleAdd == [pc |-> "idle", c |-> NilChan]

Init ==
    /\ timeout = 0
    /\ count = 0
    /\ wpc = "idle"
    /\ waitRet = "none"
    /\ C = NilChan
    /\ ec = NilChan
    /\ nchan = 0
    /\ closedChans = {}
    /\ scMade = FALSE
    /\ scBuf = <<>>
    /\ watched = {}
    /\ exitOnce = FALSE
    /\ watchOnce = FALSE
    /\ err = NilErr
    /\ lpc = "none"
    /\ lsig = "none"
    /\ tpc = "none"
    /\ tArg = 0
    /\ tSc = FALSE
    /\ proc = "running"
    /\ stderr = <<>>
    /\ exitCode = -1
    /\ closes = 0
    /\ panics = {}
    /\ exitCalls = 0
    /\ firstArg = "none"
    /\ exitBy = "none"
    /\ exitTimeout = 0
    /\ lastWatch = {}
    /\ lazy = [p \in Callers |-> IdleAdd]
    /\ outWriter = "file"
    /\ errWriter = "file"
    /\ outIsTerm = FALSE
    /\ errIsTerm = FALSE
    /\ outLiveLines = 0
    /\ outLock = NoCaller
    /\ errLock = NoCaller
    /\ closed = {}
    /\ call = [p \in Callers |-> IdleCall]
    /\ lastOut = "none"
    /\ prevK = 0
    /\ rendered = {}
    /\ cmdWg = 0
    /\ cmdExitChan = "open"
    /\ cmdExitOnce = FALSE
    /\ cmdExitTimeout = DefaultTimeout
    /\ cmdSigChan = <<>>
    /\ cmdNotified = FALSE
    /\ cmdWatch = "start"
    /\ cmdTimer = "none"
    /\ cmdWait = "idle"
    /\ cmdProc = "running"
    /\ cmdStderr = <<>>
    /\ cmdStatus = -1
    /\ cmdDelivered = {}

\* ------------------------------------------------------- library contracts
\* Variant of ExitFirst: Exit without the once guard.
ExitFirst_Always == TRUE

\* sync.Once.Do runs its function only on the first call (exit.go:85).
ExitFirst == ~exitOnce

\* Variants of StartsTimer: the test of the loaded duration is missing or
\* wrong.
StartsTimer_Never(t) == FALSE
StartsTimer_Always(t) == TRUE
StartsTimer_NonNeg(t) == t >= 0
StartsTimer_NonZero(t) == t # 0

\* The once body starts timeoutWait only for a positive duration (exit.go:92).
StartsTimer(t) == t > 0

\* close(ch): nil and already closed channels panic (exit.go:88).
CloseOutcome(ch) ==
    IF ch = NilChan THEN "close of nil channel"
    ELSE IF ch \in closedChans THEN "close of closed channel"
    ELSE "ok"

\* Variant of WgNegative: the counter is changed without the check.
WgNegative_Never(c, n) == FALSE

\* sync.WaitGroup.Add panics when the counter would go negative
\* (exit.go:115, exit.go:126).
WgNegative(c, n) == c + n < 0

\* Variant of WgRelease: Wait is released one completion early.
WgRelease_Early(v) == v <= 1

\* sync.WaitGroup releases the blocked Wait when the counter reaches zero
\* (exit.go:126, exit.go:137).
WgRelease(v) == v = 0

\* signal.Stop(e.sc): no signal is relayed to e.sc afterwards (exit.go:151).
AfterStop(w) == {}

\* Variants of Rewatch: Watch without the Stop, and Watch returning on an
\* empty list before the Stop.
Rewatch_NoStop(w, S) == w \cup S
Rewatch_EmptyKeeps(w, S) == IF S = {} THEN w ELSE S

\* Watch: Stop, return on an empty list, else Notify the list
\* (exit.go:151-157).
Rewatch(w, S) == IF S = {} THEN AfterStop(w) ELSE AfterStop(w) \cup S

\* signal.Notify never blocks: a signal is dropped when the channel, of
\* capacity 1, is full (exit.go:148, exit.go:157).
Relay(buf, sig) == IF Len(buf) < 1 THEN Append(buf, sig) ELSE buf

\* A panic either unwinds to a recover of the caller, and the process goes
\* on, or it ends the process.
Panic(kind) ==
    /\ panics' = panics \cup {kind}
    /\ \E rec \in BOOLEAN : proc' = IF rec THEN proc ELSE "panicked"

\* The panic of sync.WaitGroup is a usage error treated as fatal; the state of
\* the WaitGroup after it is not specified.
FatalPanic(kind) ==
    /\ panics' = panics \cup {kind}
    /\ proc' = "panicked"

\* ------------------------------------------------------------- operations
\* Variant of SetTimeout: storing a positive timeout starts the timer.
SetTimeout_Arms(t) ==
    /\ Running
    /\ timeout' = t
    /\ tpc' = IF t > 0 /\ tpc = "none" THEN "start" ELSE tpc
    /\ tArg' = IF t > 0 /\ tpc = "none" THEN t ELSE tArg
    /\ UNCHANGED <<wgVars, waitRet, chanVars, sigVars, exitOnce, watchOnce,
                   err, lpc, lsig, tSc, proc, outVars, closes, panics,
                   exitCalls, firstArg, exitBy, exitTimeout>>
    /\ UNCHANGED <<lazy, wrVars, cmdVars>>

\* SetTimeout: atomic store of the duration.
SetTimeout(t) ==
    /\ Running
    /\ timeout' = t
    /\ UNCHANGED <<wgVars, waitRet, chanVars, sigVars, exitOnce, watchOnce,
                   err, lpc, lsig, tpc, tArg, tSc, proc, outVars, closes, panics,
                   exitCalls, firstArg, exitBy, exitTimeout>>
    /\ UNCHANGED <<lazy, wrVars, cmdVars>>

\* Body of Exit(e) called by `by`: the once body stores the error, closes
\* e.ec, loads the timeout and starts timeoutWait.  sync.Once counts a body
\* that panicked as run.
DoExit(e, by) ==
    /\ exitCalls' = IF exitCalls < MaxExitCalls THEN exitCalls + 1
                    ELSE exitCalls
    /\ firstArg' = IF exitCalls = 0 THEN e ELSE firstArg
    /\ IF ExitFirst
       THEN /\ exitOnce' = TRUE
            /\ err' = e
            /\ exitBy' = by
            /\ exitTimeout' = timeout
            /\ IF CloseOutcome(ec) = "ok"
               THEN /\ closedChans' = closedChans \cup {ec}
                    /\ closes' = closes + 1
                    /\ tpc' = IF StartsTimer(timeout) THEN "start" ELSE tpc
                    /\ tArg' = IF StartsTimer(timeout) THEN timeout ELSE tArg
                    /\ UNCHANGED <<panics, proc>>
               ELSE /\ Panic(CloseOutcome(ec))
                    /\ UNCHANGED <<closedChans, closes, tpc, tArg>>
       ELSE UNCHANGED <<exitOnce, err, exitBy, exitTimeout, closedChans,
                        closes, tpc, tArg, panics, proc>>

\* Variant of Exit: the call returns only when nothing is pending.
Exit_Waits(e) ==
    /\ Running
    /\ count = 0
    /\ DoExit(e, "program")
    /\ UNCHANGED <<timeout, wgVars, waitRet, C, ec, nchan, sigVars, watchOnce,
                   lpc, lsig, tSc, outVars>>
    /\ UNCHANGED <<lazy, wrVars, cmdVars>>

\* Exit called by the program (a task, the main flow).
Exit(e) ==
    /\ Running
    /\ DoExit(e, "program")
    /\ UNCHANGED <<timeout, wgVars, waitRet, C, ec, nchan, sigVars, watchOnce,
                   lpc, lsig, tSc, outVars>>
    /\ UNCHANGED <<lazy, wrVars, cmdVars>>

\* Lazy creation of the exit channel, shared by Add and Watch.
InitChan ==
    IF ec = NilChan
    THEN /\ nchan' = nchan + 1
         /\ C' = nchan + 1
         /\ ec' = nchan + 1
    ELSE UNCHANGED <<nchan, C, ec>>

\* e.wg.Add(n): panic on a negative counter, release of Wait at zero.
WgAdd(n) ==
    IF WgNegative(count, n)
    THEN /\ FatalPanic("negative WaitGroup counter")
         /\ UNCHANGED <<count, wpc>>
    ELSE /\ count' = count + n
         /\ wpc' = IF wpc = "waiting" /\ WgRelease(count + n)
                   THEN "woken" ELSE wpc
         /\ UNCHANGED <<panics, proc>>

Add(n) ==
    /\ Running
    /\ count + n <= MaxCount
    /\ InitChan
    /\ WgAdd(n)
    /\ UNCHANGED <<timeout, waitRet, closedChans, sigVars, exitVars,
                   watchOnce, lpc, lsig, tSc, outVars>>
    /\ UNCHANGED <<lazy, wrVars, cmdVars>>

\* Variant of Done: Done creates the exit channel as Add does.
Done_InitChan ==
    /\ Running
    /\ InitChan
    /\ WgAdd(-1)
    /\ UNCHANGED <<timeout, waitRet, closedChans, sigVars, exitVars,
                   watchOnce, lpc, lsig, tSc, outVars>>
    /\ UNCHANGED <<lazy, wrVars, cmdVars>>

\* Done: e.wg.Done().
Done ==
    /\ Running
    /\ WgAdd(-1)
    /\ UNCHANGED <<timeout, waitRet, chanVars, sigVars, exitVars, watchOnce,
                   lpc, lsig, tSc, outVars>>
    /\ UNCHANGED <<lazy, wrVars, cmdVars>>

\* Variant of WaitResult: Wait drops the stored error.
WaitResult_Nil == NilErr

\* Wait returns the stored error (exit.go:139).
WaitResult == err

\* Wait called: e.wg.Wait() returns at once when the counter is zero, and
\* Wait returns e.err; otherwise the caller blocks.
WaitCall ==
    /\ Running
    /\ wpc = "idle"
    /\ IF WgRelease(count)
       THEN wpc' = "returned" /\ waitRet' = WaitResult
       ELSE wpc' = "waiting" /\ waitRet' = waitRet
    /\ UNCHANGED <<timeout, count, chanVars, sigVars, exitVars, watchOnce,
                   lpc, lsig, tSc, proc, outVars, panics>>
    /\ UNCHANGED <<lazy, wrVars, cmdVars>>

\* Wait released: e.wg.Wait() returns and Wait returns e.err.  sync.WaitGroup
\* panics in Wait when the counter was raised again before the released
\* caller ran.
WaitReturn ==
    /\ Running
    /\ wpc = "woken"
    /\ IF count = 0
       THEN /\ wpc' = "returned"
            /\ waitRet' = WaitResult
            /\ UNCHANGED <<panics, proc>>
       ELSE /\ FatalPanic("WaitGroup is reused")
            /\ UNCHANGED <<wpc, waitRet>>
    /\ UNCHANGED <<timeout, count, chanVars, sigVars, exitVars, watchOnce,
                   lpc, lsig, tSc, outVars>>
    /\ UNCHANGED <<lazy, wrVars, cmdVars>>

\* Variant of StartsListener: every Watch call with signals starts a listener.
StartsListener_Every(S, once) == S # {}

\* Watch starts the listener goroutine when it gets past the empty-list return
\* (exit.go:154-156) and the once body has not run (exit.go:159).
StartsListener(S, once) == S # {} /\ ~once

\* Watch(S): make e.sc, stop the relay, and for a non-empty list register it
\* and, once, create the exit channel and start the listener.
Watch(S) ==
    /\ Running
    /\ scMade' = TRUE
    /\ scBuf' = scBuf
    /\ watched' = Rewatch(watched, S)
    /\ lastWatch' = S
    /\ IF StartsListener(S, watchOnce)
       THEN /\ watchOnce' = TRUE
            /\ InitChan
            /\ lpc' = "select"
       ELSE UNCHANGED <<watchOnce, nchan, C, ec, lpc>>
    /\ UNCHANGED <<timeout, wgVars, waitRet, closedChans, exitVars, lsig, tSc,
                   proc, outVars, panics>>
    /\ UNCHANGED <<lazy, wrVars, cmdVars>>

\* The operating system delivers sig to the process; os/signal relays it to
\* e.sc when it is registered for that channel.
Deliver(sig) ==
    /\ Running
    /\ scBuf' = IF sig \in watched THEN Relay(scBuf, sig) ELSE scBuf
    /\ UNCHANGED <<timeout, wgVars, waitRet, chanVars, scMade, watched, lastWatch,
                   exitVars, watchOnce, lpc, lsig, tSc, proc, outVars, panics>>
    /\ UNCHANGED <<lazy, wrVars, cmdVars>>

\* Listener goroutine, select case <-e.sc.
ListenerRecv ==
    /\ Running
    /\ lpc = "select"
    /\ scBuf # <<>>
    /\ scBuf' = Tail(scBuf)
    /\ lsig' = Head(scBuf)
    /\ lpc' = "exit"
    /\ UNCHANGED <<timeout, wgVars, waitRet, chanVars, scMade, watched, lastWatch,
                   exitVars, watchOnce, tSc, proc, outVars, panics>>
    /\ UNCHANGED <<lazy, wrVars, cmdVars>>

\* Variant of ListenerClosed: the listener goes on to call Exit after the
\* close of C as well.
ListenerClosed_Exits ==
    /\ Running
    /\ lpc = "select"
    /\ C \in closedChans
    /\ lpc' = "exit"
    /\ UNCHANGED <<timeout, wgVars, waitRet, chanVars, sigVars, exitVars,
                   watchOnce, lsig, tSc, proc, outVars, panics>>
    /\ UNCHANGED <<lazy, wrVars, cmdVars>>

\* Listener goroutine, select case <-e.C: return.
ListenerClosed ==
    /\ Running
    /\ lpc = "select"
    /\ C \in closedChans
    /\ lpc' = "done"
    /\ UNCHANGED <<timeout, wgVars, waitRet, chanVars, sigVars, exitVars,
                   watchOnce, lsig, tSc, proc, outVars, panics>>
    /\ UNCHANGED <<lazy, wrVars, cmdVars>>

\* Listener goroutine after the signal: e.Exit(nil).
ListenerExit ==
    /\ Running
    /\ lpc = "exit"
    /\ DoExit(NilErr, "listener")
    /\ lpc' = "done"
    /\ lsig' = "none"
    /\ UNCHANGED <<timeout, wgVars, waitRet, C, ec, nchan, sigVars, watchOnce,
                   tSc, outVars>>
    /\ UNCHANGED <<lazy, wrVars, cmdVars>>

\* Variant of TimeoutEnter: timeoutWait announces the timer when it starts.
TimeoutEnter_Announce ==
    /\ Running
    /\ tpc = "start"
    /\ tpc' = "select"
    /\ tSc' = scMade
    /\ stderr' = Append(stderr, TimeoutLine)
    /\ UNCHANGED <<timeout, wgVars, waitRet, chanVars, sigVars, exitOnce,
                   watchOnce, err, lpc, lsig, tArg, proc, exitCode, closes,
                   panics, exitCalls, firstArg, exitBy, exitTimeout>>
    /\ UNCHANGED <<lazy, wrVars, cmdVars>>

\* timeoutWait enters its select: e.sc is evaluated once, the timer starts.
TimeoutEnter ==
    /\ Running
    /\ tpc = "start"
    /\ tpc' = "select"
    /\ tSc' = scMade
    /\ UNCHANGED <<timeout, wgVars, waitRet, chanVars, sigVars, exitOnce,
                   watchOnce, err, lpc, lsig, tArg, proc, outVars, closes, panics,
                   exitCalls, firstArg, exitBy, exitTimeout>>
    /\ UNCHANGED <<lazy, wrVars, cmdVars>>

\* Variant of TimeoutFire: the timer is stopped once nothing is pending.
TimeoutFire_Draining ==
    /\ Running
    /\ tpc = "select"
    /\ count > 0
    /\ stderr' = Append(stderr, TimeoutLine)
    /\ tpc' = "print"
    /\ UNCHANGED <<timeout, wgVars, waitRet, chanVars, sigVars, exitOnce,
                   watchOnce, err, lpc, lsig, tArg, tSc, proc, exitCode, closes,
                   panics, exitCalls, firstArg, exitBy, exitTimeout>>
    /\ UNCHANGED <<lazy, wrVars, cmdVars>>

\* timeoutWait, select case <-time.After(t).
TimeoutFire ==
    /\ Running
    /\ tpc = "select"
    /\ stderr' = Append(stderr, TimeoutLine)
    /\ tpc' = "print"
    /\ UNCHANGED <<timeout, wgVars, waitRet, chanVars, sigVars, exitOnce,
                   watchOnce, err, lpc, lsig, tArg, tSc, proc, exitCode, closes,
                   panics, exitCalls, firstArg, exitBy, exitTimeout>>
    /\ UNCHANGED <<lazy, wrVars, cmdVars>>

\* Variant of TimeoutSignal: the signal case is taken after the select as
\* well.
TimeoutSignal_Again ==
    /\ Running
    /\ tpc \in {"select", "print"}
    /\ tSc
    /\ scBuf # <<>>
    /\ scBuf' = Tail(scBuf)
    /\ stderr' = Append(stderr, SignalLine)
    /\ tpc' = "print"
    /\ UNCHANGED <<timeout, wgVars, waitRet, chanVars, scMade, watched, lastWatch,
                   exitOnce, watchOnce, err, lpc, lsig, tArg, tSc, proc, exitCode,
                   closes, panics, exitCalls, firstArg, exitBy, exitTimeout>>
    /\ UNCHANGED <<lazy, wrVars, cmdVars>>

\* timeoutWait, select case <-e.sc (a nil channel is never ready).
TimeoutSignal ==
    /\ Running
    /\ tpc = "select"
    /\ tSc
    /\ scBuf # <<>>
    /\ scBuf' = Tail(scBuf)
    /\ stderr' = Append(stderr, SignalLine)
    /\ tpc' = "print"
    /\ UNCHANGED <<timeout, wgVars, waitRet, chanVars, scMade, watched, lastWatch,
                   exitOnce, watchOnce, err, lpc, lsig, tArg, tSc, proc, exitCode,
                   closes, panics, exitCalls, firstArg, exitBy, exitTimeout>>
    /\ UNCHANGED <<lazy, wrVars, cmdVars>>

\* Variant of PrintErr: the stored error is not printed.
PrintErr_Drop(out, e) == out

\* if e.err != nil { fmt.Fprintln(os.Stderr, e.err) } (exit.go:107-109).
PrintErr(out, e) == IF e # NilErr THEN Append(out, e) ELSE out

\* timeoutWait after the select: print the stored error, os.Exit(ETIME).
TimeoutExit ==
    /\ Running
    /\ tpc = "print"
    /\ stderr' = PrintErr(stderr, err)
    /\ exitCode' = ETIME
    /\ proc' = "forced"
    /\ tpc' = "done"
    /\ UNCHANGED <<timeout, wgVars, waitRet, chanVars, sigVars, exitOnce,
                   watchOnce, err, lpc, lsig, tArg, tSc, closes, panics, exitCalls,
                   firstArg, exitBy, exitTimeout>>
    /\ UNCHANGED <<lazy, wrVars, cmdVars>>

\* The caller of Wait returns from main once Wait has returned: the process
\* ends and takes its goroutines with it.
MainReturn ==
    /\ Running
    /\ wpc = "returned"
    /\ proc' = "returned"
    /\ UNCHANGED <<timeout, wgVars, waitRet, chanVars, sigVars, exitVars,
                   watchOnce, lpc, lsig, tSc, outVars, panics>>
    /\ UNCHANGED <<lazy, wrVars, cmdVars>>

Next ==
    \/ \E t \in Timeouts : SetTimeout(t)
    \/ \E e \in Errs : Exit(e)
    \/ \E n \in Deltas : Add(n)
    \/ Done
    \/ WaitCall
    \/ WaitReturn
    \/ \E S \in SUBSET Sigs : Watch(S)
    \/ \E sig \in Sigs : Deliver(sig)
    \/ ListenerRecv
    \/ ListenerClosed
    \/ ListenerExit
    \/ TimeoutEnter
    \/ TimeoutFire
    \/ TimeoutSignal
    \/ TimeoutExit
    \/ MainReturn

Spec == Init /\ [][Next]_vars

\* The Go scheduler runs every runnable goroutine, and a started timer
\* expires: the steps of timeoutWait and the return of a released Wait are
\* taken when they stay enabled, and so are the steps of the listener.
FairSpec ==
    /\ Spec
    /\ WF_vars(TimeoutEnter)
    /\ WF_vars(TimeoutFire)
    /\ WF_vars(TimeoutExit)
    /\ WF_vars(WaitReturn)
    /\ WF_vars(ListenerRecv)
    /\ WF_vars(ListenerClosed)
    /\ WF_vars(ListenerExit)
    /\ WF_vars(TimeoutSignal)

TypeOK ==
    /\ timeout \in Timeouts \cup {0}
    /\ count \in 0..MaxCount
    /\ wpc \in {"idle", "waiting", "woken", "returned"}
    /\ waitRet \in Errs \cup {"none"}
    /\ C \in 0..1 /\ ec \in 0..1 /\ nchan \in 0..1
    /\ closedChans \subseteq 1..1
    /\ scMade \in BOOLEAN
    /\ Len(scBuf) <= 1
    /\ watched \subseteq Sigs
    /\ lpc \in {"none", "select", "exit", "done"}
    /\ lsig \in Sigs \cup {"none"}
    /\ lastWatch \subseteq Sigs
    /\ watched = lastWatch
    /\ tpc \in {"none", "start", "select", "print", "done"}
    /\ proc \in {"running", "panicked", "forced", "returned"}

\* ------------------------------------------------- write.go: the two sinks
\* fmt.Sprint of one string operand: the operand as it is.
Sprint(t) == t

\* fmt.Sprintln of one string operand: the operand and a newline.
Sprintln(t) == Append(t, Newline)

\* fmt.Sprintf(f, v): the format with every verb replaced by the operand.
Sprintf(f, v) == [i \in 1..Len(f) |-> IF f[i] = Verb THEN v ELSE f[i]]

\* The bytes an operation formats from its text.
Formatted(op, t) ==
    CASE op \in {"Print", "Eprint"} -> Sprint(t)
      [] op \in {"Println", "Eprintln"} -> Sprintln(t)
      [] op \in {"Printf", "Eprintf", "Lprintf"} -> Sprintf(t, Val)

\* bytes.Count(b, []byte{'\n'}).
Newlines(b) == Cardinality({i \in 1..Len(b) : b[i] = Newline})

\* isatty.IsTerminal(f.Fd()): a terminal that has not been closed.
IsTerminal(w, cl) == w \in Terminals /\ w \notin cl

\* Variant of LockFree: Lock does not wait for the holder.
LockFree_Always(lock) == TRUE

\* sync.Mutex.Lock returns when the mutex is free.
LockFree(lock) == lock = NoCaller

\* Variant of LiveMode: Lprintf clears on every writer.
LiveMode_Always(isTerm) == TRUE

\* Lprintf takes the live path when the output writer is a terminal
\* (write.go:248).
LiveMode(isTerm) == isTerm

\* Variant of ResetLive: the count is reset whatever the writer is.
ResetLive_Always(isTerm, n) == 0

\* Variant of ResetLive: an ordinary write keeps the live line count.
ResetLive_Keep(isTerm, n) == n

\* if c.outIsTerm { c.outLiveLines = 0 } (write.go:218-220).
ResetLive(isTerm, n) == IF isTerm THEN 0 ELSE n

\* Variant of WriteResult: a failed write panics.
WriteResult_Panics(failed) == IF failed THEN "panic" ELSE "ok"

\* What a function returning the error of its write hands to its caller.
WriteResult(failed) == IF failed THEN "err" ELSE "ok"

\* Variant of ClearOutcome: the error of the write is ignored.
ClearOutcome_Ignore(failed) == "ok"

\* clearLiveLines panics with the error of a failed write (write.go:332-335).
ClearOutcome(failed) == IF failed THEN "panic" ELSE "ok"

\* Variant of LiveCount: the live line count is left at zero.
LiveCount_Zero(b) == 0

\* c.outLiveLines = bytes.Count(b, []byte{'\n'}) (write.go:256).
LiveCount(b) == Newlines(b)

\* The writes a call has made, after a write of b that failed or not.
Written(out, b, failed) == IF failed THEN out ELSE Append(out, b)

\* The ExitHandler variables a panic leaves alone.
ehQuiet == <<timeout, wgVars, waitRet, chanVars, sigVars, exitVars, watchOnce,
             lpc, lsig, tSc, outVars>>

\* c.outLock.Lock() on entry of an operation of the output sink.
LockOut(p, op, t, w) ==
    /\ Running
    /\ call[p].pc = "idle"
    /\ LockFree(outLock)
    /\ outLock' = p
    /\ call' = [call EXCEPT ![p] =
                  [IdleCall EXCEPT !.pc = "locked", !.op = op, !.arg = t,
                                   !.w = w,
                                   !.k0 = IF op = "Lprintf" THEN outLiveLines
                                          ELSE 0]]
    /\ UNCHANGED <<ehVars, cmdVars, lazy, outWriter, errWriter, outIsTerm, errIsTerm,
                   outLiveLines, errLock, closed, lastOut, prevK, rendered>>

\* Variant of LockErr in which an operation of the error sink waits for and
\* takes the output lock as well.
LockErr_Both(p, op, t, w) ==
    /\ Running
    /\ call[p].pc = "idle"
    /\ LockFree(errLock)
    /\ LockFree(outLock)
    /\ errLock' = p
    /\ outLock' = p
    /\ call' = [call EXCEPT ![p] =
                  [IdleCall EXCEPT !.pc = "locked", !.op = op, !.arg = t,
                                   !.w = w]]
    /\ UNCHANGED <<ehVars, cmdVars, lazy, outWriter, errWriter, outIsTerm, errIsTerm,
                   outLiveLines, closed, lastOut, prevK, rendered>>

\* c.errLock.Lock() on entry of an operation of the error sink.
LockErr(p, op, t, w) ==
    /\ Running
    /\ call[p].pc = "idle"
    /\ LockFree(errLock)
    /\ errLock' = p
    /\ call' = [call EXCEPT ![p] =
                  [IdleCall EXCEPT !.pc = "locked", !.op = op, !.arg = t,
                                   !.w = w]]
    /\ UNCHANGED <<ehVars, cmdVars, lazy, outWriter, errWriter, outIsTerm, errIsTerm,
                   outLiveLines, outLock, closed, lastOut, prevK, rendered>>

PrintCall(p, t) == LockOut(p, "Print", t, "none")
PrintfCall(p, f) == LockOut(p, "Printf", f, "none")
PrintlnCall(p, t) == LockOut(p, "Println", t, "none")
LprintfCall(p, f) == LockOut(p, "Lprintf", f, "none")
SetOutputWriterCall(p, w) == LockOut(p, "SetOutputWriter", <<>>, w)
EprintCall(p, t) == LockErr(p, "Eprint", t, "none")
EprintfCall(p, f) == LockErr(p, "Eprintf", f, "none")
EprintlnCall(p, t) == LockErr(p, "Eprintln", t, "none")
SetErrorWriterCall(p, w) == LockErr(p, "SetErrorWriter", <<>>, w)

\* Variant: SetOutputWriter also forgets the live lines of the old writer.
SetOutputWriter_Resets(p) ==
    /\ Running
    /\ call[p].pc = "locked"
    /\ call[p].op = "SetOutputWriter"
    /\ outWriter' = call[p].w
    /\ outIsTerm' = IsTerminal(call[p].w, closed)
    /\ outLiveLines' = 0
    /\ call' = [call EXCEPT ![p].pc = "done", ![p].res = "ok"]
    /\ UNCHANGED <<ehVars, cmdVars, lazy, errWriter, errIsTerm,
                   outLock, errLock, closed, lastOut, prevK, rendered>>

\* SetOutputWriter under the lock: store the writer, test it for a terminal.
SetOutputWriter(p) ==
    /\ Running
    /\ call[p].pc = "locked"
    /\ call[p].op = "SetOutputWriter"
    /\ outWriter' = call[p].w
    /\ outIsTerm' = IsTerminal(call[p].w, closed)
    /\ call' = [call EXCEPT ![p].pc = "done", ![p].res = "ok"]
    /\ UNCHANGED <<ehVars, cmdVars, lazy, errWriter, errIsTerm, outLiveLines,
                   outLock, errLock, closed, lastOut, prevK, rendered>>

\* SetErrorWriter under the lock.
SetErrorWriter(p) ==
    /\ Running
    /\ call[p].pc = "locked"
    /\ call[p].op = "SetErrorWriter"
    /\ errWriter' = call[p].w
    /\ errIsTerm' = IsTerminal(call[p].w, closed)
    /\ call' = [call EXCEPT ![p].pc = "done", ![p].res = "ok"]
    /\ UNCHANGED <<ehVars, cmdVars, lazy, outWriter, outIsTerm, outLiveLines,
                   outLock, errLock, closed, lastOut, prevK, rendered>>

\* Print, Printf, Println under the lock: reset the live line count on a
\* terminal, format and write, return the result of the write.
OutWrite(p) ==
    /\ Running
    /\ call[p].pc = "locked"
    /\ call[p].op \in OutWrites
    /\ outLiveLines' = ResetLive(outIsTerm, outLiveLines)
    /\ lastOut' = IF ~outIsTerm THEN lastOut
                  ELSE IF lastOut \in {"live", "reset"} THEN "reset"
                  ELSE "plain"
    /\ prevK' = 0
    /\ call' = [call EXCEPT
                  ![p].pc = "done",
                  ![p].res = WriteResult(outWriter \in closed),
                  ![p].wrote = Written(call[p].wrote,
                                       Formatted(call[p].op, call[p].arg),
                                       outWriter \in closed)]
    /\ UNCHANGED <<ehVars, cmdVars, lazy, outWriter, errWriter, outIsTerm, errIsTerm,
                   outLock, errLock, closed, rendered>>

\* Eprint, Eprintf, Eprintln under the lock: reset the live line count when
\* the error writer is a terminal, format and write, return the result.
ErrWrite(p) ==
    /\ Running
    /\ call[p].pc = "locked"
    /\ call[p].op \in ErrWrites
    /\ outLiveLines' = ResetLive(errIsTerm, outLiveLines)
    /\ prevK' = 0
    /\ call' = [call EXCEPT
                  ![p].pc = "done",
                  ![p].res = WriteResult(errWriter \in closed),
                  ![p].wrote = Written(call[p].wrote,
                                       Formatted(call[p].op, call[p].arg),
                                       errWriter \in closed)]
    /\ UNCHANGED <<ehVars, cmdVars, lazy, outWriter, errWriter, outIsTerm, errIsTerm,
                   outLock, errLock, closed, lastOut, rendered>>

\* Lprintf under the lock on a writer that is no terminal: fmt.Fprintf.
LprintfPlain(p) ==
    /\ Running
    /\ call[p].pc = "locked"
    /\ call[p].op = "Lprintf"
    /\ ~LiveMode(outIsTerm)
    /\ prevK' = 0
    /\ call' = [call EXCEPT
                  ![p].pc = "done",
                  ![p].res = WriteResult(outWriter \in closed),
                  ![p].wrote = Written(call[p].wrote,
                                       Sprintf(call[p].arg, Val),
                                       outWriter \in closed)]
    /\ UNCHANGED <<ehVars, cmdVars, lazy, outWriter, errWriter, outIsTerm, errIsTerm,
                   outLiveLines, outLock, errLock, closed,
                   lastOut, rendered>>

\* One pass of the loop of clearLiveLines: the loop condition read
\* c.outLiveLines above l, the clear sequence is written, and the write
\* panics when it fails.
ClearLiveLines(p) ==
    /\ Running
    /\ call[p].pc = "locked"
    /\ call[p].op = "Lprintf"
    /\ LiveMode(outIsTerm)
    /\ call[p].l < outLiveLines
    /\ call' = IF ClearOutcome(outWriter \in closed) = "panic"
               THEN [call EXCEPT ![p].pc = "done", ![p].res = "panic"]
               ELSE [call EXCEPT ![p].l = call[p].l + 1,
                                 ![p].wrote = Written(call[p].wrote, ClearCmd,
                                                      outWriter \in closed)]
    /\ UNCHANGED <<ehVars, cmdVars, lazy, outWriter, errWriter, outIsTerm, errIsTerm,
                   outLiveLines, outLock, errLock, closed,
                   lastOut, prevK, rendered>>

\* The loop of clearLiveLines ends and the count is zeroed; Lprintf formats
\* into c.outLiveBuf (reset first, read only here), stores the number of
\* newlines and writes the bytes.
LiveWrite(p) ==
    /\ Running
    /\ call[p].pc = "locked"
    /\ call[p].op = "Lprintf"
    /\ LiveMode(outIsTerm)
    /\ call[p].l >= outLiveLines
    /\ outLiveLines' = LiveCount(Sprintf(call[p].arg, Val))
    /\ lastOut' = "live"
    /\ prevK' = Newlines(Sprintf(call[p].arg, Val))
    /\ rendered' = IF outWriter \in closed THEN rendered
                 ELSE rendered \cup {outWriter}
    /\ call' = [call EXCEPT
                  ![p].pc = "done",
                  ![p].res = WriteResult(outWriter \in closed),
                  ![p].wrote = Written(call[p].wrote,
                                       Sprintf(call[p].arg, Val),
                                       outWriter \in closed)]
    /\ UNCHANGED <<ehVars, cmdVars, lazy, outWriter, errWriter, outIsTerm, errIsTerm,
                   outLock, errLock, closed>>

\* Variant: the Unlock is no deferred call and a panic skips it.
Return_NoDefer(p) ==
    /\ Running
    /\ call[p].pc = "done"
    /\ outLock' = IF outLock = p /\ call[p].res # "panic"
                  THEN NoCaller ELSE outLock
    /\ errLock' = IF errLock = p THEN NoCaller ELSE errLock
    /\ call' = [call EXCEPT ![p] = IdleCall]
    /\ IF call[p].res = "panic"
       THEN Panic("write: file already closed")
       ELSE UNCHANGED <<panics, proc>>
    /\ UNCHANGED <<ehQuiet, cmdVars, lazy, outWriter, errWriter, outIsTerm, errIsTerm,
                   outLiveLines, closed, lastOut, prevK, rendered>>

\* The deferred Unlock and the return of the call to its caller; a panic
\* goes on to the caller after the Unlock.
Return(p) ==
    /\ Running
    /\ call[p].pc = "done"
    /\ outLock' = IF outLock = p THEN NoCaller ELSE outLock
    /\ errLock' = IF errLock = p THEN NoCaller ELSE errLock
    /\ call' = [call EXCEPT ![p] = IdleCall]
    /\ IF call[p].res = "panic"
       THEN Panic("write: file already closed")
       ELSE UNCHANGED <<panics, proc>>
    /\ UNCHANGED <<ehQuiet, cmdVars, lazy, outWriter, errWriter, outIsTerm, errIsTerm,
                   outLiveLines, closed, lastOut, prevK, rendered>>

\* Another party closes a destination: the writes to it fail from then on.
CloseWriter(w) ==
    /\ Running
    /\ w \notin closed
    /\ closed' = closed \cup {w}
    /\ UNCHANGED <<ehVars, cmdVars, lazy, outWriter, errWriter, outIsTerm, errIsTerm,
                   outLiveLines, outLock, errLock, call, lastOut,
                   prevK, rendered>>

WriterNext ==
    \/ \E p \in Callers, t \in Texts : PrintCall(p, t)
    \/ \E p \in Callers, t \in Texts : PrintfCall(p, t)
    \/ \E p \in Callers, t \in Texts : PrintlnCall(p, t)
    \/ \E p \in Callers, t \in Texts : LprintfCall(p, t)
    \/ \E p \in Callers, w \in OutDests : SetOutputWriterCall(p, w)
    \/ \E p \in Callers, t \in Texts : EprintCall(p, t)
    \/ \E p \in Callers, t \in Texts : EprintfCall(p, t)
    \/ \E p \in Callers, t \in Texts : EprintlnCall(p, t)
    \/ \E p \in Callers, w \in Dests : SetErrorWriterCall(p, w)
    \/ \E p \in Callers : SetOutputWriter(p)
    \/ \E p \in Callers : SetErrorWriter(p)
    \/ \E p \in Callers : OutWrite(p)
    \/ \E p \in Callers : ErrWrite(p)
    \/ \E p \in Callers : LprintfPlain(p)
    \/ \E p \in Callers : ClearLiveLines(p)
    \/ \E p \in Callers : LiveWrite(p)
    \/ \E p \in Callers : Return(p)
    \/ \E w \in Dests : CloseWriter(w)

\* The output functions of one Cmd called by the goroutines of Callers.
WriterSpec == Init /\ [][WriterNext]_vars

\* ------------------------- exit.go: first calls of Add running concurrently
\* Add(1) by caller p, its test e.ec == nil having found nil: make(chan bool).
AddMake(p) ==
    /\ Running
    /\ lazy[p].pc = "idle"
    /\ ec = NilChan
    /\ nchan' = nchan + 1
    /\ lazy' = [lazy EXCEPT ![p] = [pc |-> "storeC", c |-> nchan + 1]]
    /\ UNCHANGED <<timeout, wgVars, waitRet, C, ec, closedChans, sigVars,
                   exitVars, watchOnce, lpc, lsig, tSc, proc, outVars, panics,
                   wrVars, cmdVars>>

\* e.C = c.
AddStoreC(p) ==
    /\ Running
    /\ lazy[p].pc = "storeC"
    /\ C' = lazy[p].c
    /\ lazy' = [lazy EXCEPT ![p].pc = "storeEc"]
    /\ UNCHANGED <<timeout, wgVars, waitRet, ec, nchan, closedChans, sigVars,
                   exitVars, watchOnce, lpc, lsig, tSc, proc, outVars, panics,
                   wrVars, cmdVars>>

\* e.ec = c.
AddStoreEc(p) ==
    /\ Running
    /\ lazy[p].pc = "storeEc"
    /\ ec' = lazy[p].c
    /\ lazy' = [lazy EXCEPT ![p].pc = "wgAdd"]
    /\ UNCHANGED <<timeout, wgVars, waitRet, C, nchan, closedChans, sigVars,
                   exitVars, watchOnce, lpc, lsig, tSc, proc, outVars, panics,
                   wrVars, cmdVars>>

\* e.wg.Add(1) and the return of Add.
AddWg(p) ==
    /\ Running
    /\ lazy[p].pc = "wgAdd"
    /\ count + 1 <= MaxCount
    /\ WgAdd(1)
    /\ lazy' = [lazy EXCEPT ![p] = IdleAdd]
    /\ UNCHANGED <<timeout, waitRet, chanVars, sigVars, exitVars, watchOnce,
                   lpc, lsig, tSc, outVars, wrVars, cmdVars>>

RaceNext ==
    \/ \E p \in Callers : AddMake(p)
    \/ \E p \in Callers : AddStoreC(p)
    \/ \E p \in Callers : AddStoreEc(p)
    \/ \E p \in Callers : AddWg(p)
    \/ \E t \in Timeouts : SetTimeout(t)
    \/ \E e \in Errs : Exit(e)
    \/ Done
    \/ \E S \in SUBSET Sigs : Watch(S)

\* Add, Done, Exit, Watch and SetTimeout called from several goroutines, the
\* first calls of Add interleaved statement by statement.
RaceSpec == Init /\ [][RaceNext]_vars

\* ------------------------------------------ the Cmd of the first versions
\* NewCmd makes the WaitGroup and the exit channel, stores the default
\* timeout and starts watchExitSignal; the state after NewCmd is the initial
\* one.  watchExitSignal registers for the signals itself, once it runs.

\* The operating system delivers sig: os/signal relays it to sigChan when
\* Notify was called (dropping it when the channel, of capacity 1, is full);
\* before that the default action of the signal ends the process.
CmdDeliver(sig) ==
    /\ CmdRunning
    /\ cmdDelivered' = cmdDelivered \cup {sig}
    /\ IF cmdNotified
       THEN /\ cmdSigChan' = Relay(cmdSigChan, sig)
            /\ UNCHANGED cmdProc
       ELSE /\ cmdProc' = "killed"
            /\ UNCHANGED cmdSigChan
    /\ UNCHANGED <<cmdWg, cmdExitChan, cmdExitOnce, cmdExitTimeout,
                   cmdNotified, cmdWatch, cmdTimer, cmdWait, cmdStderr,
                   cmdStatus>>
    /\ UNCHANGED <<ehVars, lazy, wrVars>>

\* c.exitTimeout.Store(t).
CmdSetExitTimeout(t) ==
    /\ CmdRunning
    /\ cmdExitTimeout' = t
    /\ UNCHANGED <<cmdWg, cmdExitChan, cmdExitOnce, cmdSigChan, cmdNotified,
                   cmdWatch, cmdTimer, cmdWait, cmdProc, cmdStderr, cmdStatus,
                   cmdDelivered>>
    /\ UNCHANGED <<ehVars, lazy, wrVars>>

\* Body of Cmd.Exit: once, close the exit channel and start the goroutine
\* that waits for the timeout.
CmdDoExit ==
    IF ~cmdExitOnce
    THEN /\ cmdExitOnce' = TRUE
         /\ cmdExitChan' = "closed"
         /\ cmdTimer' = "sleep"
    ELSE UNCHANGED <<cmdExitOnce, cmdExitChan, cmdTimer>>

\* Exit called by the program.
CmdExit ==
    /\ CmdRunning
    /\ CmdDoExit
    /\ UNCHANGED <<cmdWg, cmdExitTimeout, cmdSigChan, cmdNotified, cmdWatch,
                   cmdWait, cmdProc, cmdStderr, cmdStatus, cmdDelivered>>
    /\ UNCHANGED <<ehVars, lazy, wrVars>>

\* c.wg.Add(1), called before Wait or while something is pending.
CmdAddWait ==
    /\ CmdRunning
    /\ cmdWg < MaxCount
    /\ cmdWait = "idle" \/ cmdWg > 0
    /\ cmdWg' = cmdWg + 1
    /\ UNCHANGED <<cmdExitChan, cmdExitOnce, cmdExitTimeout, cmdSigChan,
                   cmdNotified, cmdWatch, cmdTimer, cmdWait, cmdProc,
                   cmdStderr, cmdStatus, cmdDelivered>>
    /\ UNCHANGED <<ehVars, lazy, wrVars>>

\* c.wg.Done(): a negative counter panics.
CmdDone ==
    /\ CmdRunning
    /\ IF cmdWg = 0
       THEN cmdProc' = "panicked" /\ UNCHANGED cmdWg
       ELSE cmdWg' = cmdWg - 1 /\ UNCHANGED cmdProc
    /\ UNCHANGED <<cmdExitChan, cmdExitOnce, cmdExitTimeout, cmdSigChan,
                   cmdNotified, cmdWatch, cmdTimer, cmdWait, cmdStderr,
                   cmdStatus, cmdDelivered>>
    /\ UNCHANGED <<ehVars, lazy, wrVars>>

\* The main flow calls Wait: c.wg.Wait() blocks.
CmdWaitCall ==
    /\ CmdRunning
    /\ cmdWait = "idle"
    /\ cmdWait' = "waiting"
    /\ UNCHANGED <<cmdWg, cmdExitChan, cmdExitOnce, cmdExitTimeout, cmdSigChan,
                   cmdNotified, cmdWatch, cmdTimer, cmdProc, cmdStderr,
                   cmdStatus, cmdDelivered>>
    /\ UNCHANGED <<ehVars, lazy, wrVars>>

\* Wait returns when the counter is zero.
CmdWaitReturn ==
    /\ CmdRunning
    /\ cmdWait = "waiting"
    /\ cmdWg = 0
    /\ cmdWait' = "returned"
    /\ UNCHANGED <<cmdWg, cmdExitChan, cmdExitOnce, cmdExitTimeout, cmdSigChan,
                   cmdNotified, cmdWatch, cmdTimer, cmdProc, cmdStderr,
                   cmdStatus, cmdDelivered>>
    /\ UNCHANGED <<ehVars, lazy, wrVars>>

\* The main flow returns after Wait: the process ends with status 0.
CmdMainReturn ==
    /\ CmdRunning
    /\ cmdWait = "returned"
    /\ cmdProc' = "returned"
    /\ cmdStatus' = 0
    /\ UNCHANGED <<cmdWg, cmdExitChan, cmdExitOnce, cmdExitTimeout, cmdSigChan,
                   cmdNotified, cmdWatch, cmdTimer, cmdWait, cmdStderr,
                   cmdDelivered>>
    /\ UNCHANGED <<ehVars, lazy, wrVars>>

\* watchExitSignal starts running: make sigChan, signal.Notify.
CmdNotify ==
    /\ CmdRunning
    /\ cmdWatch = "start"
    /\ cmdNotified' = TRUE
    /\ cmdWatch' = "select"
    /\ UNCHANGED <<cmdWg, cmdExitChan, cmdExitOnce, cmdExitTimeout, cmdSigChan,
                   cmdTimer, cmdWait, cmdProc, cmdStderr, cmdStatus,
                   cmdDelivered>>
    /\ UNCHANGED <<ehVars, lazy, wrVars>>

\* watchExitSignal, select case <-sigChan.
CmdWatchSignal ==
    /\ CmdRunning
    /\ cmdWatch = "select"
    /\ cmdSigChan # <<>>
    /\ cmdSigChan' = Tail(cmdSigChan)
    /\ cmdWatch' = "exit"
    /\ UNCHANGED <<cmdWg, cmdExitChan, cmdExitOnce, cmdExitTimeout,
                   cmdNotified, cmdTimer, cmdWait, cmdProc, cmdStderr,
                   cmdStatus, cmdDelivered>>
    /\ UNCHANGED <<ehVars, lazy, wrVars>>

\* watchExitSignal, select case <-c.exitChan.
CmdWatchClosed ==
    /\ CmdRunning
    /\ cmdWatch = "select"
    /\ cmdExitChan = "closed"
    /\ cmdWatch' = "exit"
    /\ UNCHANGED <<cmdWg, cmdExitChan, cmdExitOnce, cmdExitTimeout, cmdSigChan,
                   cmdNotified, cmdTimer, cmdWait, cmdProc, cmdStderr,
                   cmdStatus, cmdDelivered>>
    /\ UNCHANGED <<ehVars, lazy, wrVars>>

\* watchExitSignal after its select: c.Exit().
CmdWatchExit ==
    /\ CmdRunning
    /\ cmdWatch = "exit"
    /\ CmdDoExit
    /\ cmdWatch' = "second"
    /\ UNCHANGED <<cmdWg, cmdExitTimeout, cmdSigChan, cmdNotified, cmdWait,
                   cmdProc, cmdStderr, cmdStatus, cmdDelivered>>
    /\ UNCHANGED <<ehVars, lazy, wrVars>>

\* watchExitSignal: <-sigChan a second time, then
\* c.EPrintln("exit forced by signal").
CmdWatchSecond ==
    /\ CmdRunning
    /\ cmdWatch = "second"
    /\ cmdSigChan # <<>>
    /\ cmdSigChan' = Tail(cmdSigChan)
    /\ cmdStderr' = Append(cmdStderr, SignalLine)
    /\ cmdWatch' = "osexit"
    /\ UNCHANGED <<cmdWg, cmdExitChan, cmdExitOnce, cmdExitTimeout,
                   cmdNotified, cmdTimer, cmdWait, cmdProc, cmdStatus,
                   cmdDelivered>>
    /\ UNCHANGED <<ehVars, lazy, wrVars>>

\* watchExitSignal: os.Exit(1).
CmdWatchOsExit ==
    /\ CmdRunning
    /\ cmdWatch = "osexit"
    /\ cmdWatch' = "done"
    /\ cmdProc' = "forced"
    /\ cmdStatus' = 1
    /\ UNCHANGED <<cmdWg, cmdExitChan, cmdExitOnce, cmdExitTimeout, cmdSigChan,
                   cmdNotified, cmdTimer, cmdWait, cmdStderr, cmdDelivered>>
    /\ UNCHANGED <<ehVars, lazy, wrVars>>

\* The goroutine of Exit: <-time.After(timeout), then
\* c.EPrintln("exit forced by timeout").
CmdTimerFire ==
    /\ CmdRunning
    /\ cmdTimer = "sleep"
    /\ cmdStderr' = Append(cmdStderr, TimeoutLine)
    /\ cmdTimer' = "osexit"
    /\ UNCHANGED <<cmdWg, cmdExitChan, cmdExitOnce, cmdExitTimeout, cmdSigChan,
                   cmdNotified, cmdWatch, cmdWait, cmdProc, cmdStatus,
                   cmdDelivered>>
    /\ UNCHANGED <<ehVars, lazy, wrVars>>

\* The goroutine of Exit: os.Exit(1).
CmdTimerOsExit ==
    /\ CmdRunning
    /\ cmdTimer = "osexit"
    /\ cmdTimer' = "done"
    /\ cmdProc' = "forced"
    /\ cmdStatus' = 1
    /\ UNCHANGED <<cmdWg, cmdExitChan, cmdExitOnce, cmdExitTimeout, cmdSigChan,
                   cmdNotified, cmdWatch, cmdWait, cmdStderr, cmdDelivered>>
    /\ UNCHANGED <<ehVars, lazy, wrVars>>

CmdNext ==
    \/ \E sig \in CmdSigs : CmdDeliver(sig)
    \/ \E t \in CmdTimeouts : CmdSetExitTimeout(t)
    \/ CmdExit
    \/ CmdAddWait
    \/ CmdDone
    \/ CmdWaitCall
    \/ CmdWaitReturn
    \/ CmdMainReturn
    \/ CmdNotify
    \/ CmdWatchSignal
    \/ CmdWatchClosed
    \/ CmdWatchExit
    \/ CmdWatchSecond
    \/ CmdWatchOsExit
    \/ CmdTimerFire
    \/ CmdTimerOsExit

CmdSpec == Init /\ [][CmdNext]_vars

\* ------------------------------------------------------------------ claims
NilClosePanic == "close of nil channel" \in panics
DoubleClosePanic == "close of closed channel" \in panics
NegativePanic == "negative WaitGroup counter" \in panics

C2_FirstErrorWins ==
    /\ [](exitCalls >= 1 => err = firstArg)
    /\ [](exitCalls = 0 => err = NilErr)
    /\ [][wpc # "returned" /\ wpc' = "returned" =>
            waitRet' = IF exitCalls >= 1 THEN firstArg ELSE NilErr]_vars
    /\ [][wpc = "returned" => waitRet' = waitRet]_vars

\* Wait returned the first error after a second Exit call and the last Done.
C2_Witness ==
    /\ wpc = "returned"
    /\ exitCalls >= 2
    /\ firstArg = "e1"
    /\ waitRet = "e1"
    /\ count = 0
    /\ closes = 1

\* C3: a Wait that blocked on a positive count stays blocked while the count
\* is positive, is released by the step that brings the count to zero, and
\* then returns; Wait never returns while the count is positive.
C3_WaitUntilZero ==
    /\ [](wpc = "waiting" => count > 0)
    /\ [][wpc = "waiting" /\ wpc' # "waiting" =>
            wpc' = "woken" /\ count > 0 /\ count' = 0]_vars
    /\ [][wpc = "idle" /\ wpc' # "idle" =>
            wpc' = IF count = 0 THEN "returned" ELSE "waiting"]_vars
    /\ [][wpc # "returned" /\ wpc' = "returned" =>
            wpc \in {"idle", "woken"} /\ count = 0 /\ count' = 0]_vars
    /\ (wpc = "woken" ~> (wpc = "returned" \/ ~Running))

\* A Wait that blocked has been released by the last Done and has returned.
C3_Witness ==
    /\ wpc = "woken"
    /\ count = 0
    /\ Running

Cause == IF stderr = <<>> THEN "none" ELSE stderr[1]

\* The ways the process ends other than by running on: forced by timeoutWait,
\* killed by a panic, or left by main after Wait returned.
Ended == proc \in {"forced", "panicked", "returned"}

\* C5 as stated: with a positive timeout at the first Exit and a task that has
\* not called Done, the forced termination comes after the line
\* "exit forced by timeout".
C5_Original ==
    proc = "forced" /\ exitTimeout > 0 /\ count > 0 => Cause = TimeoutLine

\* C5, amended: once the first Exit call has closed C with a positive timeout
\* stored, timeoutWait eventually terminates the process with os.Exit(ETIME)
\* unless a panic or the return of main after Wait ends it first; before the
\* termination exactly one cause line was printed, "exit forced by timeout" or,
\* when timeoutWait received a watched signal first, "exit forced by signal";
\* a Wait blocked on a positive count does not return while it stays positive.
C5_ForcedExit ==
    /\ (closes = 1 /\ exitTimeout > 0) ~> Ended
    /\ [](proc = "forced" =>
            /\ exitCode = ETIME
            /\ closes = 1 /\ exitTimeout > 0
            /\ Cause \in {TimeoutLine, SignalLine}
            /\ tpc = "done")
    /\ [](tpc = "print" => stderr \in {<<TimeoutLine>>, <<SignalLine>>})
    /\ [](Cause = SignalLine => tSc /\ scMade)
    /\ [](proc # "forced" => exitCode = -1)
    /\ [](proc = "returned" => wpc = "returned")
    /\ [][wpc = "waiting" /\ count' > 0 => wpc' = "waiting"]_vars

\* A task never called Done, Wait is still blocked, the timer expired.
C5_Witness ==
    /\ proc = "forced"
    /\ exitCode = ETIME
    /\ Cause = TimeoutLine
    /\ count > 0
    /\ wpc = "waiting"

\* C6: when the timeout stored at the first Exit call is zero or negative,
\* timeoutWait is never started, nothing is printed and the process is never
\* force-terminated, whatever is done afterwards.
C6_NoTimerWithoutTimeout ==
    /\ [][exitCalls = 0 /\ exitCalls' = 1 => exitTimeout' = timeout]_vars
    /\ [][exitCalls >= 1 => exitTimeout' = exitTimeout]_vars
    /\ [](exitCalls >= 1 /\ exitTimeout <= 0 =>
            /\ tpc = "none"
            /\ proc # "forced"
            /\ stderr = <<>>
            /\ exitCode = -1)

\* Exit ran with timeout zero; the tasks are still draining after a later
\* SetTimeout of a positive value.
C6_Witness ==
    /\ closes = 1
    /\ exitTimeout = 0
    /\ timeout > 0
    /\ count > 0
    /\ wpc = "waiting"
    /\ Running

\* C7 as stated: a watched signal received while the shutdown is draining is
\* followed by the end of the process, for every timeout setting.
C7_Original ==
    (closes = 1 /\ count > 0 /\ scBuf # <<>>) ~> (~Running \/ count = 0)

\* C7, amended: a watched signal received while the shutdown is draining
\* forces the exit only through timeoutWait, which runs only when the timeout
\* stored at the first Exit was positive; then the process is terminated (on
\* the signal, with "exit forced by signal", or on expiry).  With a zero or
\* negative timeout only the listener ever takes a signal from the channel and
\* no signal forces the exit.
C7_SignalForcesWithTimeout ==
    /\ [](Cause = SignalLine => exitTimeout > 0 /\ closes = 1 /\ tSc)
    /\ [][tpc = "select" /\ tpc' = "print" /\ scBuf' # scBuf =>
            stderr' = <<SignalLine>>]_vars
    /\ [][exitCalls >= 1 /\ exitTimeout <= 0 /\ Len(scBuf') < Len(scBuf) =>
            lpc = "select" /\ lpc' = "exit" /\ proc' = proc]_vars
    /\ [](exitCalls >= 1 /\ exitTimeout <= 0 => proc # "forced")
    /\ (closes = 1 /\ exitTimeout > 0 /\ count > 0 /\ scBuf # <<>>) ~> Ended

\* A signal received during the drain was taken by timeoutWait.
C7_Witness ==
    /\ proc = "forced"
    /\ Cause = SignalLine
    /\ count > 0
    /\ exitCode = ETIME

\* C8 as stated: after a replacement of the list, a signal the listener
\* receives (and answers with Exit) is always one of the current list, also
\* when it was in the channel before the replacement.
C8_Original ==
    [][lpc = "select" /\ lpc' = "exit" => lsig' \in lastWatch]_vars

\* C8, amended: after Watch(S2) following Watch(S1) the one listener started
\* by the first non-empty call serves the new list: a delivered signal of S2
\* enters the channel and the listener, while it waits, can receive it and
\* answers it with Exit(nil); a signal outside S2 delivered after the call
\* does not enter the channel; Watch does not empty the channel, so a signal
\* of S1 that was in it before the replacement is still received and still
\* triggers Exit(nil).
C8_WatchReplaces ==
    /\ [][\A sig \in Sigs : Deliver(sig) /\ sig \notin lastWatch =>
            scBuf' = scBuf]_vars
    /\ [][\A sig \in Sigs : Deliver(sig) /\ sig \in lastWatch =>
            scBuf' = IF scBuf = <<>> THEN <<sig>> ELSE scBuf]_vars
    /\ [][\A S \in SUBSET Sigs : Watch(S) =>
            scBuf' = scBuf /\ lastWatch' = S]_vars
    /\ [][lpc' = "select" /\ lpc # "select" =>
            lpc = "none" /\ ~watchOnce /\ lastWatch' # {}]_vars
    /\ [](Running /\ lpc = "select" /\ scBuf # <<>> => ENABLED ListenerRecv)
    /\ [][lpc = "select" /\ lpc' = "exit" =>
            scBuf # <<>> /\ lsig' = Head(scBuf)]_vars
    /\ [][lpc = "exit" /\ lpc' = "done" /\ ~exitOnce =>
            exitOnce' /\ err' = NilErr /\ exitBy' = "listener"]_vars

\* A signal of the replaced list is in the channel and the listener has yet
\* to receive it.
C8_Witness ==
    /\ lastWatch = {"SIGUSR1"}
    /\ scBuf = <<"SIGHUP">>
    /\ lpc = "select"
    /\ ~exitOnce
    /\ Running

\* C9: after Watch() with an empty list a delivered signal changes nothing in
\* the handler; with no signal left in the channel or in the listener's hands
\* from before, the handler is triggered only by a programmatic Exit, and its
\* error is what Wait then returns.
C9_EmptyWatch ==
    /\ [][\A sig \in Sigs : Deliver(sig) /\ lastWatch = {} =>
            UNCHANGED <<scBuf, exitOnce, exitCalls, err, closedChans, lpc>>]_vars
    /\ [][lastWatch = {} /\ scBuf = <<>> /\ lpc # "exit" =>
            scBuf' = <<>> /\ lpc' # "exit"
            /\ (~exitOnce /\ exitOnce' =>
                    exitBy' = "program" /\ err' = firstArg')]_vars
    /\ [][wpc # "returned" /\ wpc' = "returned" /\ exitBy = "program" =>
            waitRet' = firstArg]_vars

\* After a non-empty and then an empty Watch the program called Exit("e1"),
\* the listener saw C closed, and Wait returned that error.
C9_Witness ==
    /\ watchOnce
    /\ lastWatch = {}
    /\ scBuf = <<>>
    /\ lpc = "done"
    /\ exitBy = "program"
    /\ exitCalls = 1
    /\ waitRet = "e1"

\* C10 as stated: after the listener triggered the shutdown, a further signal
\* received during the drain is followed by the end of the process.
C10_Original ==
    (exitBy = "listener" /\ count > 0 /\ scBuf # <<>>)
        ~> (~Running \/ count = 0)

\* C10, amended: the listener answers the first signal it receives on an
\* un-triggered handler with one close of C and a nil stored error, so Wait
\* returns nil; nothing triggers a second time; a further signal during the
\* drain forces the exit only when the timeout stored at that trigger was
\* positive, and with a zero or negative timeout it has no effect.
C10_SignalTriggersOnce ==
    /\ [][lpc = "exit" /\ lpc' = "done" /\ ~exitOnce =>
            /\ closes' = 1
            /\ C \in closedChans'
            /\ err' = NilErr
            /\ exitBy' = "listener"]_vars
    /\ [](exitBy = "listener" =>
            closes = 1 /\ err = NilErr /\ ~NilClosePanic /\ lpc = "done")
    /\ [](exitBy = "listener" /\ wpc = "returned" => waitRet = NilErr)
    /\ [][exitBy = "listener" =>
            exitBy' = exitBy /\ closes' = closes /\ err' = err]_vars
    /\ [](exitBy = "listener" /\ exitTimeout <= 0 =>
            tpc = "none" /\ proc # "forced")
    /\ (exitBy = "listener" /\ exitTimeout > 0) ~> Ended

\* The shutdown was triggered by a signal without a timeout; a second signal
\* lies in the channel while a task is still draining.
C10_Witness ==
    /\ exitBy = "listener"
    /\ exitTimeout <= 0
    /\ scBuf # <<>>
    /\ count > 0
    /\ lpc = "done"
    /\ Running

\* Wait returns now: the step in which the Wait caller gets its result.
WaitReturns == wpc # "returned" /\ wpc' = "returned"

\* timeoutWait has left its select: the timer expired or it took a signal.
TimerExpired == tpc \in {"print", "done"}

\* C11: on the graceful path (the first Exit passed nil and C was closed, the
\* last task called Done before timeoutWait left its select on expiry or on a
\* further signal) the released Wait returns, it returns nil, and at that
\* return nothing was forced: no exit status was set, and only timeoutWait
\* after its select ever forces the exit.
C11_Graceful ==
    /\ (closes = 1 /\ firstArg = NilErr /\ wpc = "woken")
          ~> (\/ wpc = "returned" /\ waitRet = NilErr
              \/ TimerExpired
              \/ proc = "panicked")
    /\ [][WaitReturns /\ closes = 1 /\ firstArg = NilErr =>
            /\ waitRet' = NilErr
            /\ count' = 0
            /\ proc' = "running"
            /\ exitCode' = -1]_vars
    /\ [][WaitReturns /\ ~TimerExpired =>
            stderr' = <<>> /\ ~TimerExpired']_vars
    /\ [][proc # "forced" /\ proc' = "forced" => tpc = "print"]_vars
    /\ [](Running /\ wpc = "woken" /\ count = 0 => ENABLED WaitReturn)

\* Exit(nil) with a positive timeout, the task called Done, Wait returned nil
\* while timeoutWait was still in its select.
C11_Witness ==
    /\ wpc = "returned"
    /\ waitRet = NilErr
    /\ closes = 1
    /\ exitCalls = 1
    /\ exitBy = "program"
    /\ firstArg = NilErr
    /\ exitTimeout > 0
    /\ tpc = "select"
    /\ count = 0
    /\ proc = "running"

\* C12: whether and when Wait returns depends on the pending count alone: it
\* returns only with the count at zero, a released Wait can return whatever
\* Exit did, and its result is nil when no Exit call happened before the
\* return and when the Exit calls before it passed nil.
C12_WaitOnlyCount ==
    /\ [][WaitReturns => count = 0 /\ count' = 0]_vars
    /\ [][WaitReturns /\ exitCalls = 0 =>
            waitRet' = NilErr /\ ~exitOnce' /\ closes' = 0]_vars
    /\ [][WaitReturns /\ exitCalls >= 1 /\ firstArg = NilErr =>
            waitRet' = NilErr]_vars
    /\ [](wpc = "returned" /\ waitRet # NilErr =>
            exitCalls >= 1 /\ firstArg = waitRet)
    /\ [](Running /\ wpc = "idle" => ENABLED WaitCall)
    /\ [][wpc = "idle" /\ wpc' = "waiting" => count > 0]_vars

\* A Wait that blocked on registered tasks was released by the last Done and
\* is about to return; no Exit call was ever made.
C12_Witness ==
    /\ wpc = "woken"
    /\ count = 0
    /\ exitCalls = 0
    /\ ~exitOnce
    /\ err = NilErr
    /\ Running

\* C13: a forced exit is made by timeoutWait in this order: exactly one cause
\* line ("exit forced by timeout" or "exit forced by signal"), then the stored
\* error when it is not nil, then os.Exit with syscall.ETIME, the same status
\* for both causes; a non-nil stored error is always on the output of a forced
\* exit.
C13_ForcedOrder ==
    /\ [][proc # "forced" /\ proc' = "forced" =>
            /\ stderr \in {<<TimeoutLine>>, <<SignalLine>>}
            /\ stderr' = IF err = NilErr THEN stderr ELSE stderr \o <<err>>
            /\ exitCode = -1
            /\ exitCode' = ETIME
            /\ err' = err]_vars
    /\ [](proc = "forced" =>
            /\ stderr \in {<<l>> \o (IF err = NilErr THEN <<>> ELSE <<err>>) :
                              l \in {TimeoutLine, SignalLine}}
            /\ err = firstArg
            /\ exitCode = ETIME)
    /\ [](proc = "forced" /\ firstArg # NilErr => stderr[Len(stderr)] = firstArg)
    /\ [][proc = "forced" => UNCHANGED <<stderr, exitCode, err>>]_vars
    /\ ETIME # 0

\* Forced by a signal with a stored error: cause line, error, status.
C13_Witness ==
    /\ proc = "forced"
    /\ stderr = <<SignalLine, "e1">>
    /\ exitCode = ETIME
    /\ err = "e1"

\* The step in which caller p runs the body of its call or one pass of it.
BodyStep(p) == call[p].pc = "locked" /\ call'[p] # call[p]

\* The step in which the call of caller p finishes its body.
BodyEnd(p) == call[p].pc = "locked" /\ call'[p].pc = "done"

\* The bytes the Lprintf of caller p formats.
Content(p) == Sprintf(call[p].arg, Val)

\* n clear sequences.
Clears(n) == [i \in 1..n |-> ClearCmd]

\* Caller p is inside an operation of the output sink, of the error sink.
InOut(p) ==
    call[p].pc # "idle"
    /\ call[p].op \in OutWrites \cup {"Lprintf", "SetOutputWriter"}
InErr(p) ==
    call[p].pc # "idle" /\ call[p].op \in ErrWrites \cup {"SetErrorWriter"}

\* C14: with an output writer that is no terminal, Lprintf makes the one write
\* Printf makes for the same format and operand (the same bytes, the same
\* result), writes no clear sequence and leaves the live line count alone,
\* whatever count earlier calls left behind.
C14_PlainLprintf ==
    /\ [][\A p \in Callers :
            BodyStep(p) /\ call[p].op = "Lprintf" /\ ~outIsTerm =>
                /\ call'[p].pc = "done"
                /\ call'[p].wrote = IF outWriter \in closed THEN <<>>
                                    ELSE <<Formatted("Printf", call[p].arg)>>
                /\ call'[p].res = IF outWriter \in closed THEN "err" ELSE "ok"
                /\ outLiveLines' = outLiveLines]_vars
    /\ [][\A p \in Callers :
            BodyStep(p) /\ call[p].op = "Printf" =>
                /\ call'[p].pc = "done"
                /\ call'[p].wrote = IF outWriter \in closed THEN <<>>
                                    ELSE <<Formatted("Printf", call[p].arg)>>
                /\ call'[p].res = IF outWriter \in closed THEN "err"
                                  ELSE "ok"]_vars
    /\ [](\A p \in Callers :
            call[p].op = "Lprintf" /\ ~outIsTerm =>
                \A i \in 1..Len(call[p].wrote) : call[p].wrote[i] # ClearCmd)

\* After live lines on a terminal the writer was replaced by a file; the
\* Lprintf to the file wrote its two lines and nothing else.
C14_Witness ==
    \E p \in Callers :
        /\ call[p].op = "Lprintf"
        /\ call[p].pc = "done"
        /\ ~outIsTerm
        /\ outWriter = "file"
        /\ outLiveLines = 2
        /\ call[p].wrote = <<<<"a", Newline, Val, Newline>>>>

\* C15 as stated: between calls, the number of clear sequences the next
\* Lprintf writes on a terminal (the live line count) is the number of newlines
\* of the immediately preceding write when that was an Lprintf to the
\* terminal, and 0 otherwise.
C15_Original ==
    (\A p \in Callers : call[p].pc = "idle") /\ outIsTerm =>
        outLiveLines = prevK

\* C15, amended: on a terminal, Lprintf writes one clear sequence per pass of
\* its loop, as many as the live line count it found (fewer only when an
\* Eprint* to a terminal zeroes the count while it clears), then its content,
\* and stores the number of newlines of the content as the new count.  The
\* count it finds is the one stored by the latest Lprintf on a terminal unless
\* a Print, Printf or Println on a terminal output writer or an Eprint* on a
\* terminal error writer has zeroed it since; SetOutputWriter, SetErrorWriter
\* and the writes to a writer that is no terminal leave it as it is.
C15_LiveClears ==
    /\ [][\A p \in Callers :
            call'[p].l # call[p].l /\ call'[p].pc # "idle" =>
                /\ call[p].op = "Lprintf" /\ outIsTerm
                /\ call[p].l < outLiveLines
                /\ call'[p].l = call[p].l + 1
                /\ call'[p].wrote = Append(call[p].wrote, ClearCmd)
                /\ outLiveLines' = outLiveLines]_vars
    /\ [][\A p \in Callers :
            BodyEnd(p) /\ call[p].op = "Lprintf" /\ outIsTerm
            /\ call'[p].res # "panic" =>
                /\ call[p].wrote = Clears(call[p].l)
                /\ IF outLiveLines = call[p].k0
                   THEN call[p].l = call[p].k0
                   ELSE outLiveLines = 0 /\ call[p].l <= call[p].k0
                /\ call'[p].wrote = IF outWriter \in closed
                                    THEN call[p].wrote
                                    ELSE Append(call[p].wrote, Content(p))
                /\ outLiveLines' = Newlines(Content(p))]_vars
    /\ [](\A p \in Callers :
            call[p].op = "Lprintf" /\ call[p].pc = "locked" =>
                outLiveLines \in {call[p].k0, 0} /\ call[p].l <= call[p].k0)
    /\ [][outLiveLines' # outLiveLines =>
            \E p \in Callers :
                /\ BodyEnd(p)
                /\ \/ call[p].op \in OutWrites /\ outIsTerm
                      /\ outLiveLines' = 0
                   \/ call[p].op \in ErrWrites /\ errIsTerm
                      /\ outLiveLines' = 0
                   \/ call[p].op = "Lprintf" /\ outIsTerm
                      /\ call'[p].res # "panic"]_vars

\* An Lprintf on a terminal found two live lines, cleared both and wrote one
\* line, while the error writer is no terminal.
C15_Witness ==
    \E p \in Callers :
        /\ call[p].op = "Lprintf"
        /\ call[p].pc = "done"
        /\ call[p].res = "ok"
        /\ call[p].k0 = 2
        /\ call[p].wrote = <<ClearCmd, ClearCmd, <<Val, Newline>>>>
        /\ outLiveLines = 1
        /\ outIsTerm
        /\ ~errIsTerm

\* C16: a Print, Printf or Println to a terminal output writer zeroes the live
\* line count and makes one write, of its own content; the count stays zero
\* until the next Lprintf, which therefore writes no clear sequence.
C16_OrdinaryResets ==
    /\ [][\A p \in Callers :
            BodyStep(p) /\ call[p].op \in OutWrites /\ outIsTerm =>
                /\ outLiveLines' = 0
                /\ call'[p].pc = "done"
                /\ call'[p].wrote =
                       IF outWriter \in closed THEN <<>>
                       ELSE <<Formatted(call[p].op, call[p].arg)>>
                /\ lastOut' \in {"plain", "reset"}]_vars
    /\ [](lastOut \in {"plain", "reset"} => outLiveLines = 0)
    /\ [](\A p \in Callers :
            lastOut \in {"plain", "reset"} /\ call[p].op = "Lprintf"
            /\ outIsTerm =>
                call[p].wrote = <<>> /\ call[p].l = 0)
    /\ [][\A p \in Callers :
            BodyEnd(p) /\ call[p].op = "Lprintf" /\ outIsTerm
            /\ lastOut \in {"plain", "reset"} =>
                call'[p].wrote \in {<<>>, <<Content(p)>>}]_vars

\* A Println to the terminal after live lines: the count is zero, the call
\* wrote its line.
C16_Witness ==
    \E p \in Callers :
        /\ call[p].op = "Println"
        /\ call[p].pc = "done"
        /\ call[p].res = "ok"
        /\ call[p].wrote = <<<<Verb, Newline, Newline>>>>
        /\ lastOut = "reset"
        /\ outLiveLines = 0
        /\ outIsTerm

\* C17 as stated: an Lprintf on a terminal whose write failed never returns
\* the error to its caller.
C17_Original ==
    \A p \in Callers :
        call[p].op = "Lprintf" /\ call[p].pc = "done" /\ outIsTerm =>
            call[p].res # "err"

\* C17, amended: an Lprintf on a terminal panics with the write error when a
\* write of the clear sequence fails, at that write: nothing more is written,
\* the live line count keeps its value, the lock is released and the panic
\* reaches the caller.  When only the write of the content fails (no live line
\* to clear, or the destination closed after the clearing) the error is
\* returned to the caller as by Printf, after the count was updated.
C17_LivePanics ==
    /\ [][\A p \in Callers :
            BodyStep(p) /\ call[p].op = "Lprintf" /\ outIsTerm
            /\ call[p].l < outLiveLines /\ outWriter \in closed =>
                /\ call'[p].pc = "done"
                /\ call'[p].res = "panic"
                /\ call'[p].wrote = call[p].wrote
                /\ outLiveLines' = outLiveLines]_vars
    /\ [][\A p \in Callers :
            BodyStep(p) /\ call[p].op = "Lprintf" /\ outIsTerm
            /\ call[p].l >= outLiveLines /\ outWriter \in closed =>
                /\ call'[p].pc = "done"
                /\ call'[p].res = "err"
                /\ call'[p].wrote = call[p].wrote
                /\ outLiveLines' = Newlines(Content(p))]_vars
    /\ [](\A p \in Callers :
            call[p].res = "panic" =>
                /\ call[p].op = "Lprintf"
                /\ call[p].pc = "done"
                /\ outIsTerm
                /\ outWriter \in closed
                /\ call[p].l < call[p].k0
                /\ call[p].wrote = Clears(call[p].l))
    /\ [][\A p \in Callers :
            call[p].res = "panic" /\ call'[p].pc = "idle" =>
                /\ "write: file already closed" \in panics'
                /\ outLock = p
                /\ outLock' = NoCaller]_vars

\* The terminal was closed after the first of two clear sequences: the
\* second write panicked.
C17_Witness ==
    \E p \in Callers :
        /\ call[p].op = "Lprintf"
        /\ call[p].res = "panic"
        /\ call[p].k0 = 2
        /\ call[p].wrote = <<ClearCmd>>
        /\ outLiveLines = 2

\* C18: a Print, Printf, Println, Eprint, Eprintf or Eprintln whose write
\* fails writes nothing, returns the error and never panics; when the call
\* returns the lock of its sink is free and the caller holds no lock.
C18_OrdinaryReturnsError ==
    /\ [](\A p \in Callers :
            call[p].op \in OutWrites \cup ErrWrites => call[p].res # "panic")
    /\ [][\A p \in Callers :
            BodyStep(p) /\ call[p].op \in OutWrites /\ outWriter \in closed =>
                call'[p].pc = "done" /\ call'[p].res = "err"
                /\ call'[p].wrote = <<>>]_vars
    /\ [][\A p \in Callers :
            BodyStep(p) /\ call[p].op \in ErrWrites /\ errWriter \in closed =>
                call'[p].pc = "done" /\ call'[p].res = "err"
                /\ call'[p].wrote = <<>>]_vars
    /\ [][\A p \in Callers :
            call[p].pc = "done" /\ call'[p].pc = "idle"
            /\ call[p].op \in OutWrites \cup ErrWrites =>
                /\ call[p].op \in OutWrites => outLock = p /\ outLock' = NoCaller
                /\ call[p].op \in ErrWrites => errLock = p /\ errLock' = NoCaller
                /\ outLock' # p /\ errLock' # p
                /\ panics' = panics /\ proc' = proc]_vars
    /\ [](\A p \in Callers :
            call[p].pc = "idle" => outLock # p /\ errLock # p)

\* An Eprintln to a closed error writer got the error back while a Printf to
\* the closed output writer got its own.
C18_Witness ==
    \E p, q \in Callers :
        /\ call[p].op = "Eprintln"
        /\ call[p].pc = "done"
        /\ call[p].res = "err"
        /\ call[p].wrote = <<>>
        /\ call[q].op = "Printf"
        /\ call[q].res = "err"
        /\ panics = {}

\* C19 as stated: once the exit channel has been closed, C is the channel that
\* was closed, so that every receive on C succeeds, and C and the closing end
\* are the same channel.
C19_Original ==
    closes >= 1 => C = ec /\ C \in closedChans

\* C20: at most one caller at a time is inside Print, Printf, Println, Lprintf
\* or SetOutputWriter, and it holds the output lock from its entry to its
\* return; no other caller writes to the sink or changes its writer between
\* the writes of one call (the clear sequences of an Lprintf and its content);
\* the same holds for Eprint, Eprintf, Eprintln and SetErrorWriter with the
\* error lock.
C20_MutualExclusion ==
    /\ [](\A p, q \in Callers : InOut(p) /\ InOut(q) => p = q)
    /\ [](\A p, q \in Callers : InErr(p) /\ InErr(q) => p = q)
    /\ [](\A p \in Callers : InOut(p) <=> outLock = p)
    /\ [](\A p \in Callers : InErr(p) <=> errLock = p)
    /\ [][\A p \in Callers :
            InOut(p) /\ call'[p].wrote # call[p].wrote =>
                /\ outLock = p
                /\ \A q \in Callers \ {p} : ~InOut(q) /\ ~InOut(q)']_vars
    /\ [][\A p \in Callers :
            InErr(p) /\ call'[p].wrote # call[p].wrote =>
                /\ errLock = p
                /\ \A q \in Callers \ {p} : ~InErr(q) /\ ~InErr(q)']_vars
    /\ [][\A p \in Callers :
            InOut(p) /\ InOut(p)' =>
                outWriter' = outWriter \/ call[p].op = "SetOutputWriter"]_vars
    /\ [](\A p, q \in Callers :
            InOut(p) /\ p # q =>
                \A t \in Texts : ~ENABLED LprintfCall(q, t))

\* One caller is between the clear sequence and the content of its Lprintf;
\* the other one cannot enter Printf and is inside Eprint instead.
C20_Witness ==
    /\ call["g1"].op = "Lprintf"
    /\ call["g1"].pc = "locked"
    /\ call["g1"].wrote = <<ClearCmd>>
    /\ outLock = "g1"
    /\ call["g2"].op = "Eprint"
    /\ call["g2"].pc = "locked"
    /\ errLock = "g2"

\* The steps a caller inside a writer operation can take: the body of the
\* operation it entered, or its return.
CallerStep(p) ==
    \/ SetOutputWriter(p) \/ SetErrorWriter(p)
    \/ OutWrite(p) \/ ErrWrite(p)
    \/ LprintfPlain(p) \/ ClearLiveLines(p) \/ LiveWrite(p)
    \/ Return(p)

\* C21: no caller ever holds both sink locks; a caller inside an operation
\* holds the lock of that operation's sink only and can always take its next
\* step, whoever holds the other lock; and an idle caller can enter an
\* operation of one sink whenever that sink's lock is free, even while another
\* caller holds the other sink's lock. So no interleaving of writer operations
\* deadlocks.
C21_NoLockCycle ==
    /\ \A p \in Callers : ~(outLock = p /\ errLock = p)
    /\ \A p \in Callers : (InErr(p) => outLock # p) /\ (InOut(p) => errLock # p)
    /\ \A p \in Callers :
         Running /\ call[p].pc # "idle" => ENABLED CallerStep(p)
    /\ \A p \in Callers : \A t \in Texts :
         Running /\ call[p].pc = "idle" /\ errLock = NoCaller
           => ENABLED EprintCall(p, t) /\ ENABLED EprintfCall(p, t)
              /\ ENABLED EprintlnCall(p, t)
    /\ \A p \in Callers : \A t \in Texts :
         Running /\ call[p].pc = "idle" /\ outLock = NoCaller
           => ENABLED PrintCall(p, t) /\ ENABLED LprintfCall(p, t)

\* One caller is inside SetOutputWriter holding the output lock while the
\* other has finished the body of Eprintln and still holds the error lock.
C21_Witness ==
    /\ outLock = "g1" /\ errLock = "g2"
    /\ call["g1"].op = "SetOutputWriter" /\ call["g1"].pc = "locked"
    /\ call["g2"].op = "Eprintln" /\ call["g2"].pc = "done"
    /\ call["g2"].res = "ok"


\* The step in which the process is forced to exit.
ForcedStep == proc # "forced" /\ proc' = "forced"

\* C23 as stated: the process is never forced to exit before the first Exit
\* call, and never once the pending count is zero and Wait has returned.
C23_Original ==
    [][ForcedStep => exitCalls >= 1 /\ ~(count = 0 /\ wpc = "returned")]_vars

\* C23: the process is forced to exit only after an Exit call has run the once
\* body and closed the exit channel, and only by timeoutWait; but nothing
\* stops timeoutWait when the pending count reaches zero or Wait returns: as
\* long as the process runs, its timer can expire and its exit can follow,
\* whatever the count and the state of Wait.
C23_ForcedAfterExit ==
    /\ [][ForcedStep => exitCalls >= 1 /\ exitOnce /\ closes = 1
                        /\ tpc = "print" /\ tpc' = "done"]_vars
    /\ [](proc = "forced" => exitCalls >= 1 /\ ec \in closedChans)
    /\ [](Running /\ tpc = "select" => ENABLED TimeoutFire)
    /\ [](Running /\ tpc = "print" => ENABLED TimeoutExit)

\* The timer expired and forced the exit after the last pending task was done
\* and Wait had returned nil.
C23_Witness ==
    /\ proc = "forced" /\ count = 0 /\ wpc = "returned" /\ waitRet = NilErr
    /\ stderr = <<TimeoutLine>> /\ exitBy = "program"


\* The step in which timeoutWait is started.
TimerStart == tpc = "none" /\ tpc' # "none"

\* C24: timeoutWait is started only in the step of the first Exit call (made
\* by the program or by the listener), with the positive timeout stored at
\* that moment and after the close of the exit channel; SetTimeout, Add, Done,
\* Wait, Watch and the delivery of a signal leave the timer alone; and as long
\* as no Exit call was made there is no timer, no forced exit and no output.
C24_TimerOnlyByExit ==
    /\ [][TimerStart => /\ exitCalls = 0 /\ exitCalls' = 1
                        /\ ~exitOnce /\ exitOnce'
                        /\ timeout > 0 /\ tArg' = timeout
                        /\ closes' = 1 /\ tpc' = "start"]_vars
    /\ [][\/ \E t \in Timeouts : SetTimeout(t)
          \/ \E n \in Deltas : Add(n)
          \/ Done \/ WaitCall \/ WaitReturn
          \/ \E S \in SUBSET Sigs : Watch(S)
          \/ \E sig \in Sigs : Deliver(sig)
          => tpc' = tpc /\ tArg' = tArg]_vars
    /\ [](exitCalls = 0 => tpc = "none" /\ proc # "forced" /\ stderr = <<>>)

\* Without any Exit call: a positive timeout is set, a watched signal is
\* queued for the listener, Wait has returned, and no timer runs.
C24_Witness ==
    /\ exitCalls = 0 /\ timeout > 0 /\ tpc = "none"
    /\ lpc = "select" /\ scBuf # <<>>
    /\ wpc = "returned" /\ nchan = 1 /\ Running


\* Positions of timeoutWait in the order the code passes them.
TimerRank(pc) ==
    CASE pc = "none" -> 0 [] pc = "start" -> 1 [] pc = "select" -> 2
      [] pc = "print" -> 3 [] pc = "done" -> 4

\* Number of cause lines in the diagnostic output.
CauseLines(out) ==
    Cardinality({i \in 1..Len(out) : out[i] \in {TimeoutLine, SignalLine}})

\* C25: timeoutWait is started at most once and never restarted: its position
\* only moves forward, whatever Exit calls, signals and Watch calls follow; it
\* prints nothing before its select resolves and exactly one cause line when
\* it does, and the process is forced to exit with exactly that one line
\* printed.
C25_OneTimer ==
    /\ [][TimerRank(tpc') >= TimerRank(tpc)
          /\ (tpc' = "start" /\ tpc # "start" => tpc = "none")]_vars
    /\ [](CauseLines(stderr) <= 1)
    /\ [](tpc \in {"none", "start", "select"} => stderr = <<>>)
    /\ [](tpc \in {"print", "done"} => CauseLines(stderr) = 1)
    /\ [][ForcedStep => CauseLines(stderr') = 1 /\ stderr'[1] = stderr[1]]_vars

\* A forced exit by signal after several Exit calls, the first with an error:
\* one cause line and the error were printed.
C25_Witness ==
    /\ proc = "forced" /\ exitCalls = MaxExitCalls
    /\ stderr = <<SignalLine, "e1">> /\ watchOnce


\* The step in which a listener goroutine is started.
ListenerStart == lpc # "select" /\ lpc' = "select"

\* Positions of the listener goroutine in the order the code passes them.
ListenerRank(pc) ==
    CASE pc = "none" -> 0 [] pc = "select" -> 1 [] pc = "exit" -> 2
      [] pc = "done" -> 3

\* C26: a listener goroutine is started at most once, by the first Watch call
\* with signals, and never restarted: its position only moves forward, also
\* after it has ended. A Watch call made once the listener was started, with
\* any list and in any order with Add and Exit, leaves the listener, the
\* signal channel's content and the exit channel alone and only replaces the
\* set of signals relayed to the signal channel.
C26_OneListener ==
    /\ [][ListenerStart => lpc = "none" /\ ~watchOnce /\ watchOnce']_vars
    /\ [][ListenerRank(lpc') >= ListenerRank(lpc)]_vars
    /\ [](watchOnce <=> lpc # "none")
    /\ [][\A S \in SUBSET Sigs :
            Watch(S) /\ watchOnce
              => /\ lpc' = lpc /\ lsig' = lsig /\ scBuf' = scBuf
                 /\ C' = C /\ ec' = ec /\ nchan' = nchan
                 /\ watched' = S]_vars

\* The listener has ended on the close of C by the program; a later Watch
\* call changed the watched set, and a signal of the new set is queued with no
\* listener to take it.
C26_Witness ==
    /\ lpc = "done" /\ exitBy = "program" /\ exitCalls = 1
    /\ watched = {"SIGUSR1"} /\ scBuf = <<"SIGUSR1">> /\ tpc = "none"
    /\ Running


\* C27 as stated: a listener that finds C closed before it received a signal
\* ends without taking a signal.
C27_Original ==
    [][lpc = "select" /\ C \in closedChans => lpc' # "exit"]_vars

\* C27: a listener in its select ends on the close of C without an Exit call
\* and without taking a signal, and this end is possible whenever C is closed;
\* it is the only step of the listener when no signal is queued. With a signal
\* queued as well the select may take either case: taking the signal removes
\* it from the signal channel, and the Exit(nil) that follows is the listener's
\* only Exit call, made after a signal it received itself.
C27_ListenerEnd ==
    /\ [][lpc = "select" /\ lpc' = "done"
            => C \in closedChans /\ scBuf' = scBuf /\ lsig' = "none"
               /\ exitCalls' = exitCalls /\ exitBy' = exitBy]_vars
    /\ [][lpc = "select" /\ lpc' = "exit"
            => scBuf # <<>> /\ lsig' = Head(scBuf) /\ scBuf' = Tail(scBuf)
               /\ exitCalls' = exitCalls]_vars
    /\ [](lpc = "exit" => lsig # "none")
    /\ [][exitBy' = "listener" /\ exitBy # "listener"
            => lpc = "exit" /\ lsig \in Sigs /\ ~exitOnce]_vars
    /\ [](Running /\ lpc = "select" /\ C \in closedChans
            => ENABLED ListenerClosed)
    /\ [](Running /\ lpc = "select" /\ scBuf = <<>> => ~ENABLED ListenerRecv)

\* The program's Exit closed C, and the listener has taken a signal all the
\* same: it is about to call Exit(nil), which will do nothing.
C27_Witness ==
    /\ lpc = "exit" /\ lsig = "SIGHUP" /\ exitBy = "program"
    /\ C \in closedChans /\ scBuf = <<>> /\ Running


\* C28 as stated: once a Watch call has returned, or an Add call has left a
\* pending count, the exit channel C exists and e.ec is its send end, so that
\* Exit can close it.
C28_Original ==
    scMade \/ count # 0 => C # NilChan /\ ec = C


\* C29 as stated: the live line count changes only in a step of the caller
\* that holds the output lock, so a caller inside Lprintf never sees the count
\* change in a step that is not its own.
C29_Original ==
    [][outLiveLines' # outLiveLines
         => \E p \in Callers : outLock = p /\ call'[p] # call[p]]_vars


\* C30: the body of Eprint, Eprintf or Eprintln sets the live line count to
\* zero when the error writer is a terminal, whether its write succeeds or
\* not, and leaves the count as it is otherwise; it makes the one write of its
\* formatted text. An Lprintf that starts with a count of zero, as after such
\* a reset, keeps finding it zero and writes no clear sequence.
C30_ErrorResets ==
    /\ [][\A p \in Callers :
            BodyStep(p) /\ call[p].op \in ErrWrites =>
                /\ outLiveLines' = IF errIsTerm THEN 0 ELSE outLiveLines
                /\ call'[p].pc = "done"
                /\ call'[p].wrote =
                       IF errWriter \in closed THEN <<>>
                       ELSE <<Formatted(call[p].op, call[p].arg)>>
                /\ lastOut' = lastOut]_vars
    /\ [][\A p \in Callers :
            call[p].pc = "idle" /\ call'[p].op = "Lprintf"
            /\ outLiveLines = 0 => call'[p].k0 = 0]_vars
    /\ [](\A p \in Callers :
            call[p].op = "Lprintf" /\ call[p].k0 = 0 =>
                /\ call[p].l = 0
                /\ \A i \in 1..Len(call[p].wrote) :
                       call[p].wrote[i] # ClearCmd
                /\ (call[p].pc = "locked" => outLiveLines = 0))

\* Both writers are terminals and the last write to the output was a live
\* one; a caller has finished the body of Eprintf, and the other caller has
\* entered Lprintf after it and found the count at zero.
C30_Witness ==
    /\ outIsTerm /\ errIsTerm /\ lastOut = "live" /\ outLiveLines = 0
    /\ call["g1"].op = "Eprintf" /\ call["g1"].pc = "done"
    /\ call["g2"].op = "Lprintf" /\ call["g2"].pc = "locked"
    /\ call["g2"].k0 = 0 /\ call["g2"].wrote = <<>>


\* C22 as stated: a delivered SIGHUP, SIGINT or SIGTERM reaches
\* watchExitSignal, which closes the exit channel through Exit; the signal
\* never ends the process by its default action with the exit channel still
\* open.
C22_Original ==
    \A sig \in CmdSigs :
        sig \in cmdDelivered => ~(cmdProc = "killed" /\ cmdExitChan = "open")


C32_Original ==
    proc \in {"returned", "panicked"} => stderr = <<>>

\* C32: the handler writes only inside timeoutWait, after the first Exit
\* closed C with a positive timeout: the cause line when the select resolves,
\* the stored error in the step that exits. No other operation writes, a
\* forced exit has always written, and while timeoutWait has not left its
\* select nothing is written; but the process can end between the cause line
\* and os.Exit (main returns, a panic), so a run that is not forced may have
\* written the cause line.
C32_SilentUnlessTimer ==
    /\ [](stderr # <<>> => tpc \in {"print", "done"} /\ closes = 1
                           /\ exitTimeout > 0)
    /\ [][stderr' # stderr => TimeoutFire \/ TimeoutSignal \/ TimeoutExit]_vars
    /\ [][\/ \E t \in Timeouts : SetTimeout(t)
          \/ \E e \in Errs : Exit(e)
          \/ \E n \in Deltas : Add(n)
          \/ Done \/ WaitCall \/ WaitReturn \/ MainReturn
          \/ \E S \in SUBSET Sigs : Watch(S)
          \/ \E sig \in Sigs : Deliver(sig)
          \/ ListenerRecv \/ ListenerClosed \/ ListenerExit \/ TimeoutEnter
          => stderr' = stderr]_vars
    /\ [](proc = "forced" => stderr # <<>>)
    /\ [](proc \in {"returned", "panicked"} /\ stderr # <<>>
            => stderr \in {<<TimeoutLine>>, <<SignalLine>>} /\ tpc = "print")

\* timeoutWait printed its cause line and main returned before os.Exit ran.
C32_Witness ==
    proc = "returned" /\ stderr = <<TimeoutLine>> /\ tpc = "print"
    /\ waitRet = NilErr /\ exitCode = -1


\* C33 as stated: a first signal never ends the process, it only lets
\* watchExitSignal call Exit; watchExitSignal forces the exit only after the
\* exit channel was closed, on the signal it receives then, with the line
\* "exit forced by signal" written and status 1.
C33_Original ==
    /\ cmdDelivered # {} /\ ~cmdExitOnce => CmdRunning \/ cmdProc = "panicked"
                                            \/ cmdProc = "returned"
    /\ cmdWatch \in {"osexit", "done"}
         => cmdExitOnce /\ cmdExitChan = "closed"
            /\ \E i \in 1..Len(cmdStderr) : cmdStderr[i] = SignalLine
    /\ cmdWatch = "done" => cmdProc = "forced" /\ cmdStatus = 1


C35_TimeoutFixed ==
    /\ [][\A t \in Timeouts :
            SetTimeout(t) /\ exitOnce
              => /\ timeout' = t
                 /\ UNCHANGED <<tpc, tArg, tSc, exitTimeout, proc, stderr>>]_vars
    /\ [][exitOnce => exitTimeout' = exitTimeout /\ tArg' = tArg]_vars
    /\ [](tpc # "none" => tArg = exitTimeout /\ exitTimeout > 0)
    /\ [](exitOnce /\ exitTimeout <= 0 => tpc = "none" /\ proc # "forced")
    /\ [](Running /\ tpc = "select" /\ timeout <= 0 => ENABLED TimeoutFire)

\* The timer started by the first Exit waits in its select with the duration
\* of that moment, after SetTimeout has stored a negative value.
C35_Witness ==
    /\ tpc = "select" /\ tArg = 1 /\ exitTimeout = 1 /\ timeout = -1
    /\ closes = 1 /\ Running


\* C36: Exit, by the program or by the listener, leaves the pending count and
\* the caller of Wait alone and can be taken at any count: it does not wait.
\* Add and Done leave the set of closed channels, the stored error and the
\* once guard alone, and C is closed after them exactly when it was before.
\* Wait, at its call and at its return, changes nothing of the handler (the
\* WaitGroup ends the process with a panic when the count was raised again
\* before a released Wait ran).
C36_Frames ==
    /\ [][(\E e \in Errs : Exit(e)) \/ ListenerExit
            => UNCHANGED <<count, wpc, waitRet>>]_vars
    /\ [](Running => \A e \in Errs : ENABLED Exit(e))
    /\ [][(\E n \in Deltas : Add(n)) \/ Done
            => /\ UNCHANGED <<closedChans, closes, err, exitOnce, tpc>>
               /\ (C' \in closedChans') = (C \in closedChans)]_vars
    /\ [][WaitCall \/ WaitReturn
            => /\ UNCHANGED <<timeout, count, chanVars, sigVars, exitVars,
                              watchOnce, lpc, tSc, outVars>>
               /\ (count = 0 => UNCHANGED <<proc, panics>>)]_vars

\* Exit("e1") was called and has returned while two tasks are pending and the
\* caller of Wait is blocked.
C36_Witness ==
    /\ exitCalls = 1 /\ exitBy = "program" /\ err = "e1" /\ C \in closedChans
    /\ count = MaxCount /\ wpc = "waiting" /\ tpc = "none" /\ Running


\* C37: SetOutputWriter stores the new writer and its terminal flag and leaves
\* the live line count as it is.  A count above zero is always the number of
\* lines an Lprintf rendered on the terminal it wrote to, and the next Lprintf
\* on a terminal writes as many clear sequences as the count it finds (unless
\* an Eprint* zeroes the count meanwhile), also to a writer on which nothing
\* was ever rendered.
C37_SetWriterKeepsLive ==
    /\ [][\A p \in Callers :
            BodyStep(p) /\ call[p].op = "SetOutputWriter" =>
                /\ outWriter' = call[p].w
                /\ outIsTerm' = (call[p].w \in Terminals
                                 /\ call[p].w \notin closed)
                /\ outLiveLines' = outLiveLines
                /\ rendered' = rendered]_vars
    /\ [][outLiveLines' > 0 /\ outLiveLines' # outLiveLines =>
            \E p \in Callers :
                /\ BodyEnd(p) /\ call[p].op = "Lprintf" /\ outIsTerm
                /\ outLiveLines' = Newlines(Content(p))
                /\ outWriter \notin closed => outWriter \in rendered']_vars
    /\ [](\A p \in Callers :
            call[p].pc = "locked" /\ call[p].op = "Lprintf" =>
                outLock = p)
    /\ [][\A p \in Callers :
            BodyEnd(p) /\ call[p].op = "Lprintf" /\ outIsTerm
            /\ outWriter \notin rendered /\ outLiveLines = call[p].k0
            /\ call'[p].res # "panic" =>
                call[p].wrote = Clears(call[p].k0)]_vars

\* Two lines were rendered on the first terminal, the writer was replaced by
\* a second terminal on which nothing was rendered, and the Lprintf that
\* followed has written two clear sequences to it.
C37_Witness ==
    /\ outWriter = "tty2" /\ outIsTerm /\ rendered = {"tty"}
    /\ \E p \in Callers :
        /\ call[p].op = "Lprintf" /\ call[p].pc = "locked"
        /\ call[p].k0 = 2 /\ call[p].wrote = Clears(2)


\* C38: the pass of clearLiveLines that panics on a failed write leaves the
\* live line count and the lock as they are and writes nothing; the return of
\* the panicking Lprintf releases the output lock, leaves the count as it is
\* and hands the panic to the caller.  A finished call can always return,
\* with a free output lock every idle caller can enter Lprintf, the Lprintf
\* that enters takes the count it finds as the number of lines to clear, and
\* its first clearing write to a closed writer panics again.
C38_PanicKeepsCount ==
    /\ [][\A p \in Callers :
            BodyStep(p) /\ call'[p].res = "panic" =>
                /\ call[p].op = "Lprintf" /\ outIsTerm
                /\ call[p].l < outLiveLines /\ outWriter \in closed
                /\ outLock = p /\ outLock' = p
                /\ outLiveLines' = outLiveLines
                /\ call'[p].wrote = call[p].wrote
                /\ call'[p].pc = "done"]_vars
    /\ [][\A p \in Callers :
            call[p].pc = "done" /\ call[p].res = "panic"
            /\ call'[p] # call[p] =>
                /\ call'[p] = IdleCall
                /\ outLock = p /\ outLock' = NoCaller
                /\ outLiveLines' = outLiveLines
                /\ "write: file already closed" \in panics']_vars
    /\ [](Running => \A p \in Callers :
            /\ call[p].pc = "done" => ENABLED Return(p)
            /\ call[p].pc = "idle" /\ outLock = NoCaller =>
                   \A f \in Texts : ENABLED LprintfCall(p, f))
    /\ [][\A p \in Callers :
            call[p].pc = "idle" /\ call'[p].pc = "locked"
            /\ call'[p].op = "Lprintf" =>
                call'[p].k0 = outLiveLines /\ call'[p].l = 0]_vars
    /\ [][\A p \in Callers :
            BodyStep(p) /\ call[p].op = "Lprintf" /\ outIsTerm
            /\ call[p].l < outLiveLines /\ outWriter \in closed =>
                call'[p].res = "panic"]_vars

\* An Lprintf panicked on the closed terminal with two live lines, the caller
\* recovered, and the next Lprintf found the two lines again and panicked on
\* its first clearing write.
C38_Witness ==
    /\ Running /\ "write: file already closed" \in panics
    /\ outLock # NoCaller /\ outLiveLines = 2
    /\ call[outLock].op = "Lprintf" /\ call[outLock].pc = "done"
    /\ call[outLock].res = "panic" /\ call[outLock].k0 = 2
    /\ call[outLock].wrote = <<>>

====
